---- MODULE Spec2Model ----
(***************************************************************************)
(* Model of the tune-prism stem splitter (src-tauri):                      *)
(*   - routes/split.rs : the two separation commands and their locking     *)
(*   - data/mod.rs     : AppDb::create_project / add_stems_to_project      *)
(*   - demucs/analysis.rs : BPM and key estimators                         *)
(*   - demucs/mod.rs   : split_track, post-processing filters, click repair*)
(*                                                                         *)
(* Sample values are fixed-point integers: 1000 units = amplitude 1.0.     *)
(* demucs/model.rs (LazyModelLoader) and demucs/audio.rs (decode_file,     *)
(* resample, encode_pcm_to_wav) are not part of the available sources;     *)
(* their outcomes are modelled as nondeterministic results.                *)
(***************************************************************************)
EXTENDS Integers, Sequences, FiniteSets, TLC

VARIABLES
    \* ---- application setup and the lazy model loader (main.rs, model.rs)
    appPhase,      \* "starting" | "running"
    hasMps,        \* tch::utils::has_mps()
    hasCuda,       \* tch::utils::has_cuda()
    device,        \* "none" | "Mps" | "Cuda" | "Cpu"
    sources,       \* model.config.sources of the model chosen at setup
    loaderState,   \* "NotCreated" | "Unloaded" | "Loading" | "Loaded"
    loaderLock,    \* owner of Mutex<LazyModelLoader>, 0 = free
    dbLock,        \* owner of Mutex<AppDb>, 0 = free
    \* ---- separation requests (routes/split.rs)
    pc,            \* request -> position in the command
    kind,          \* request -> which command
    proj,          \* request -> project id
    handle,        \* request -> how get_or_load produced the model
    produced,      \* request -> stem paths returned by split_track
    result,        \* request -> what the command returned
    stemPaths,     \* project -> stem_paths recorded in the database
    written,       \* set of <<project, file>> WAV files on disk
    loadCount,     \* number of successful model loads
    loadFailures,  \* number of failed model loads
    inferCount,    \* number of model.apply invocations
    \* ---- feature analysis of one audio file (demucs/analysis.rs)
    anPc,          \* "decoding", "decoded" | "failed", "bpm_done" |
                   \* "bpm_failed", then the outcome of both calls:
                   \* "bpm_done_key_done" | "bpm_done_key_failed" |
                   \* "bpm_failed_key_done" | "bpm_failed_key_failed"
    pan,           \* channel layout of the audio file
    track,         \* PcmAudioData of the audio file, packet by packet
    bpmOut,        \* what detect_bpm returned
    keyOut,        \* what detect_key returned
    \* ---- AppDb::create_project (data/mod.rs)
    cpPc,          \* "start", "inserted", "detected", "updated", "done"
    cpDoc,         \* the project document in the "projects" collection
    cpUpdate,      \* outcome of update_one: "none", "skipped", "ok", "failed"
    cpResult,      \* what create_project returned
    \* ---- post-processing of one stem (demucs/mod.rs 92-98)
    fPc,           \* "raw", "shaped", "repaired" | "panicked"
    fRate,         \* model.config.sample_rate
    fStem,         \* source name of the stem
    fIn,           \* the stem buffer copied out of the model output
    fShaped,       \* the buffer returned by post_process_stem
    fOut,          \* the buffer after remove_clicks_pops
    \* ---- split_track / split_vocal_instrumental (demucs/mod.rs 39-214)
    sPc,           \* "resampled", "normalized", "inferred", "denormalized",
                   \* "mixed", "done" | "failed" | "panicked"
    sKind,         \* "split_track" | "split_vocal_instrumental"
    sSources,      \* model.config.sources
    sRate,         \* model.config.sample_rate
    sTrack,        \* the track returned by resample
    sConv,         \* which of the two scalar conversions returned a value
    sMean,         \* mean_val
    sStd,          \* std_safe_val, a fraction <<num, den>> of thousandths
    sTensor,       \* input_tensor after normalization
    sRaw,          \* what model.apply returned, one buffer per source
    sOutput,       \* output after denormalization, one buffer per source
    sMix,          \* processed <<vocal, instrumental>> buffers
    sNext,         \* index of the next source to write
    sFiles,        \* files written so far: [name, samples]
    sResult,       \* what the function returned
    \* ---- find_peaks on the smoothed envelope (demucs/analysis.rs 89, 142-174)
    pkPc,          \* "smoothed", "found"
    pkSignal,      \* the smoothed envelope
    pkW,           \* the smoothing window_size of the estimator
    pkPeaks,       \* the indices find_peaks returned
    \* ---- the estimator at a realistic sample rate (demucs/analysis.rs 57-139)
    tpPc,          \* "filling", "estimated"
    tpRate,        \* sample_rate of the signal
    tpSamples,     \* the mono signal handed to the estimator
    tpBpm,         \* the tempo it returned, a fraction <<num, den>>
    \* ---- the "other" stem in f32 arithmetic (demucs/mod.rs 225-232)
    nzPc,          \* "raw", "filtered", "reduced"
    nzRate,        \* sample_rate
    nzIn,          \* one channel of the stem, f32 samples
    nzHigh,        \* the channel after apply_high_pass_filter
    nzOut          \* the channel after apply_noise_reduction

splitVars == <<appPhase, hasMps, hasCuda, device, sources, loaderState,
               loaderLock, dbLock, pc, kind, proj, handle, produced, result,
               stemPaths, written, loadCount, loadFailures, inferCount>>

analysisVars == <<anPc, pan, track, bpmOut, keyOut>>

projectVars == <<cpPc, cpDoc, cpUpdate, cpResult>>

filterVars == <<fPc, fRate, fStem, fIn, fShaped, fOut>>

separateVars == <<sPc, sKind, sSources, sRate, sTrack, sConv, sMean, sStd,
                  sTensor, sRaw, sOutput, sMix, sNext, sFiles, sResult>>

peakVars == <<pkPc, pkSignal, pkW, pkPeaks>>

tempoVars == <<tpPc, tpRate, tpSamples, tpBpm>>

noiseVars == <<nzPc, nzRate, nzIn, nzHigh, nzOut>>

nonSplitVars == <<analysisVars, projectVars, filterVars, separateVars,
                  peakVars, tempoVars, noiseVars>>

nonAnalysisVars == <<splitVars, projectVars, filterVars, separateVars,
                     peakVars, tempoVars, noiseVars>>

nonFilterVars == <<splitVars, analysisVars, projectVars, separateVars,
                   peakVars, tempoVars, noiseVars>>

nonSeparateVars == <<splitVars, analysisVars, projectVars, filterVars,
                     peakVars, tempoVars, noiseVars>>

nonPeakVars == <<splitVars, analysisVars, projectVars, filterVars,
                 separateVars, tempoVars, noiseVars>>

vars == <<splitVars, analysisVars, projectVars, filterVars, separateVars,
         peakVars, tempoVars, noiseVars>>

nonTempoVars == <<splitVars, analysisVars, projectVars, filterVars,
                  separateVars, peakVars, noiseVars>>

nonNoiseVars == <<splitVars, analysisVars, projectVars, filterVars,
                  separateVars, peakVars, tempoVars>>

(***************************************************************************)
(* Bounds                                                                  *)
(***************************************************************************)
MaxRequests == 2

Requests == 1..MaxRequests

(***************************************************************************)
(* Separation commands                                                     *)
(***************************************************************************)
Commands == {"split_stems", "split_vocal_instrumental_stems"}

\* Two projects, each with a document in the database: the directory of
\* "p1" holds its main.mp3, that of "p2" holds none.
Projects == {"p1", "p2"}

\* split.rs 34 / 80: project_dir.join("main.mp3")
MainMp3 == <<"main", ".mp3">>

\* The files on disk when the application starts.
InitialFiles == {<<"p1", MainMp3>>}

\* split.rs 37 / 82: song_path.exists()
HasMainMp3(p) == <<p, MainMp3>> \in written

\* The holder of the database mutex while AppDb::delete_project_by_id runs:
\* not one of the separation requests.
Deleter == -1

Htdemucs == <<"drums", "bass", "other", "vocals">>

Htdemucs6s == <<"drums", "bass", "other", "vocals", "guitar", "piano">>

Models == {Htdemucs, Htdemucs6s}

NoResult == [status |-> "none", error |-> "", stems |-> <<>>]

OkResult(paths) == [status |-> "ok", error |-> "", stems |-> paths]

ErrResult(e) == [status |-> "err", error |-> e, stems |-> <<>>]

PanicResult == [status |-> "panic", error |-> "", stems |-> <<>>]

\* Mutant: CUDA is preferred over MPS.
get_available_device_cuda_first(mps, cuda) ==
    IF cuda THEN "Cuda" ELSE IF mps THEN "Mps" ELSE "Cpu"

\* get_available_device: MPS first, then CUDA, then CPU.
get_available_device(mps, cuda) ==
    IF mps THEN "Mps" ELSE IF cuda THEN "Cuda" ELSE "Cpu"

\* Mutant: the lock is handed out while another guard is alive.
LockAlwaysAvailable(lock) == TRUE

\* tokio::sync::Mutex::lock().await completes only when no guard is alive.
LockAvailable(lock) == lock = 0

\* Mutant: the guard is leaked instead of dropped.
LeakGuard(r, lock) == lock

\* A MutexGuard owned by request r is dropped when the command returns
\* (normally, through `?`, or while unwinding).
DropGuard(r, lock) == IF lock = r THEN 0 ELSE lock

\* LazyModelLoader::new: nothing is loaded at construction.
LoaderNew == "Unloaded"

\* LazyModelLoader::get_or_load, state after a failed load.
LoaderAfterFailedLoad == "Unloaded"

\* LazyModelLoader::get_or_load, state after a successful load.
LoaderAfterLoad == "Loaded"

\* Output file names of split_track: <source>.wav in configured order.
RECURSIVE StemFiles(_)
StemFiles(srcs) ==
    IF srcs = <<>> THEN <<>>
    ELSE <<<<Head(srcs), ".wav">>>> \o StemFiles(Tail(srcs))

\* Output file names of split_vocal_instrumental.
VocalInstrumentalFiles == <<<<"vocal", ".wav">>, <<"instrumental", ".wav">>>>

OutputFiles(k, srcs) ==
    IF k = "split_stems" THEN StemFiles(srcs) ELSE VocalInstrumentalFiles

\* output_dir.join(file) for every file, output_dir = project_data/<project>.
JoinAll(p, files) == [i \in 1..Len(files) |-> <<p, files[i]>>]

Range(s) == {s[i] : i \in 1..Len(s)}

\* PcmAudioData { samples, sample_rate, nb_channels, length }
NoTrack == [samples |-> <<>>, sample_rate |-> 0, nb_channels |-> 0, length |-> 0]

\* Result<Option<f64>> and Result<Option<String>> before the call returned.
NoBpm == [ok |-> FALSE, some |-> FALSE, value |-> <<0, 1>>]

NoKey == [ok |-> FALSE, some |-> FALSE, value |-> ""]

\* No analysis is running.
AnalysisIdle ==
    /\ anPc = "off"
    /\ pan = "mono"
    /\ track = NoTrack
    /\ bpmOut = NoBpm
    /\ keyOut = NoKey

\* Option<f64> / Option<String> fields of Project.
NoneBpm == [some |-> FALSE, value |-> <<0, 1>>]

NoneKey == [some |-> FALSE, value |-> ""]

\* No document for the project in the collection.
NoDoc == [present |-> FALSE, stem_paths |-> <<>>, bpm |-> NoneBpm,
          key |-> NoneKey]

\* Result<Project, String> before create_project returned.
NoProjectResult == [status |-> "none", error |-> "", project |-> NoDoc]

\* create_project is not running.
ProjectIdle ==
    /\ cpPc = "off"
    /\ cpDoc = NoDoc
    /\ cpUpdate = "none"
    /\ cpResult = NoProjectResult

\* No stem is being post-processed.
FilterIdle ==
    /\ fPc = "off"
    /\ fRate = 0
    /\ fStem = ""
    /\ fIn = <<>>
    /\ fShaped = <<>>
    /\ fOut = <<>>

\* find_peaks is not running on its own.
PeaksIdle ==
    /\ pkPc = "off"
    /\ pkSignal = <<>>
    /\ pkW = 0
    /\ pkPeaks = <<>>

TempoIdle ==
    /\ tpPc = "off"
    /\ tpRate = 0
    /\ tpSamples = <<>>
    /\ tpBpm = <<0, 1>>

NoiseIdle ==
    /\ nzPc = "off"
    /\ nzRate = 0
    /\ nzIn = <<>>
    /\ nzHigh = <<>>
    /\ nzOut = <<>>

\* mod.rs 55-56 / 134-135: the outcome of the two try_into() calls, before
\* they are made.
NoConv == [mean |-> FALSE, std |-> FALSE]

\* Neither split_track nor split_vocal_instrumental is running.
SeparateIdle ==
    /\ sPc = "off"
    /\ sKind = "none"
    /\ sSources = <<>>
    /\ sRate = 0
    /\ sTrack = NoTrack
    /\ sConv = NoConv
    /\ sMean = 0
    /\ sStd = <<0, 1>>
    /\ sTensor = <<>>
    /\ sRaw = <<>>
    /\ sOutput = <<>>
    /\ sMix = <<>>
    /\ sNext = 0
    /\ sFiles = <<>>
    /\ sResult = NoResult

InitSplit ==
    /\ AnalysisIdle
    /\ ProjectIdle
    /\ FilterIdle
    /\ SeparateIdle
    /\ PeaksIdle
    /\ TempoIdle
    /\ NoiseIdle
    /\ appPhase = "starting"
    /\ hasMps \in BOOLEAN
    /\ hasCuda \in BOOLEAN
    /\ device = "none"
    /\ sources = <<>>
    /\ loaderState = "NotCreated"
    /\ loaderLock = 0
    /\ dbLock = 0
    /\ pc = [r \in Requests |-> "idle"]
    /\ kind = [r \in Requests |-> "none"]
    /\ proj = [r \in Requests |-> "none"]
    /\ handle = [r \in Requests |-> "none"]
    /\ produced = [r \in Requests |-> <<>>]
    /\ result = [r \in Requests |-> NoResult]
    /\ stemPaths = [p \in Projects |-> <<>>]
    /\ written = InitialFiles
    /\ loadCount = 0
    /\ loadFailures = 0
    /\ inferCount = 0

\* main.rs setup closure: pick the model, pick the device, build the loader.
Setup ==
    /\ appPhase = "starting"
    /\ \E m \in Models : sources' = m
    /\ device' = get_available_device(hasMps, hasCuda)
    /\ loaderState' = LoaderNew
    /\ appPhase' = "running"
    /\ UNCHANGED <<hasMps, hasCuda, loaderLock, dbLock, pc, kind, proj, handle,
                   produced, result, stemPaths, written, loadCount,
                   loadFailures, inferCount>>
    /\ UNCHANGED nonSplitVars

\* The front end invokes one of the two commands for a project.
Invoke(r) ==
    /\ appPhase = "running"
    /\ pc[r] = "idle"
    /\ \E k \in Commands, p \in Projects :
         /\ kind' = [kind EXCEPT ![r] = k]
         /\ proj' = [proj EXCEPT ![r] = p]
    /\ pc' = [pc EXCEPT ![r] = "check"]
    /\ UNCHANGED <<appPhase, hasMps, hasCuda, device, sources, loaderState,
                   loaderLock, dbLock, handle, produced, result, stemPaths,
                   written, loadCount, loadFailures, inferCount>>
    /\ UNCHANGED nonSplitVars

\* Return from the command: record the result, drop every guard it holds.
Return(r, res) ==
    /\ result' = [result EXCEPT ![r] = res]
    /\ pc' = [pc EXCEPT ![r] = "done"]
    /\ loaderLock' = DropGuard(r, loaderLock)
    /\ dbLock' = DropGuard(r, dbLock)

\* Mutant: the existence check is skipped and every request goes on to the
\* model loader.
CheckAudioAlwaysProceeds(r) ==
    /\ pc[r] = "check"
    /\ pc' = [pc EXCEPT ![r] = "lock_loader"]
    /\ UNCHANGED <<appPhase, hasMps, hasCuda, device, sources, loaderState,
                   loaderLock, dbLock, kind, proj, handle, produced, result,
                   stemPaths, written, loadCount, loadFailures, inferCount>>
    /\ UNCHANGED nonSplitVars

\* split.rs 32-45 / 78-90: main.mp3 must exist, else return before locking.
CheckAudio(r) ==
    /\ pc[r] = "check"
    /\ IF HasMainMp3(proj[r])
       THEN /\ pc' = [pc EXCEPT ![r] = "lock_loader"]
            /\ UNCHANGED <<result, loaderLock, dbLock>>
       ELSE Return(r, ErrResult("Audio file not found"))
    /\ UNCHANGED <<appPhase, hasMps, hasCuda, device, sources, loaderState,
                   kind, proj, handle, produced, stemPaths, written,
                   loadCount, loadFailures, inferCount>>
    /\ UNCHANGED nonSplitVars

\* Mutant: the command goes on to get_or_load without awaiting the lock.
LockLoaderNoWait(r) ==
    /\ pc[r] = "lock_loader"
    /\ pc' = [pc EXCEPT ![r] = "get_or_load"]
    /\ UNCHANGED <<appPhase, hasMps, hasCuda, device, sources, loaderState,
                   loaderLock, dbLock, kind, proj, handle, produced, result,
                   stemPaths, written, loadCount, loadFailures, inferCount>>
    /\ UNCHANGED nonSplitVars

\* split.rs 48 / 93: model_loader.lock().await
LockLoader(r) ==
    /\ pc[r] = "lock_loader"
    /\ LockAvailable(loaderLock)
    /\ loaderLock' = r
    /\ pc' = [pc EXCEPT ![r] = "get_or_load"]
    /\ UNCHANGED <<appPhase, hasMps, hasCuda, device, sources, loaderState,
                   dbLock, kind, proj, handle, produced, result, stemPaths,
                   written, loadCount, loadFailures, inferCount>>
    /\ UNCHANGED nonSplitVars

\* split.rs 49 / 94: get_or_load finds the cached model.
GetOrLoadCached(r) ==
    /\ pc[r] = "get_or_load"
    /\ loaderState = "Loaded"
    /\ handle' = [handle EXCEPT ![r] = "cached"]
    /\ pc' = [pc EXCEPT ![r] = "split"]
    /\ UNCHANGED <<appPhase, hasMps, hasCuda, device, sources, loaderState,
                   loaderLock, dbLock, kind, proj, produced, result, stemPaths,
                   written, loadCount, loadFailures, inferCount>>
    /\ UNCHANGED nonSplitVars

\* split.rs 49 / 94: get_or_load finds no model and starts loading.
GetOrLoadBegin(r) ==
    /\ pc[r] = "get_or_load"
    /\ loaderState = "Unloaded"
    /\ loaderState' = "Loading"
    /\ pc' = [pc EXCEPT ![r] = "loading"]
    /\ UNCHANGED <<appPhase, hasMps, hasCuda, device, sources, loaderLock,
                   dbLock, kind, proj, handle, produced, result, stemPaths,
                   written, loadCount, loadFailures, inferCount>>
    /\ UNCHANGED nonSplitVars

\* The load succeeds: the handle is cached and returned.
LoadOk(r) ==
    /\ pc[r] = "loading"
    /\ loaderState' = LoaderAfterLoad
    /\ loadCount' = loadCount + 1
    /\ handle' = [handle EXCEPT ![r] = "loaded"]
    /\ pc' = [pc EXCEPT ![r] = "split"]
    /\ UNCHANGED <<appPhase, hasMps, hasCuda, device, sources, loaderLock,
                   dbLock, kind, proj, produced, result, stemPaths, written,
                   loadFailures, inferCount>>
    /\ UNCHANGED nonSplitVars

\* split.rs 49-52 / 94-97: the load fails, `?` returns UnexpectedError.
LoadFail(r) ==
    /\ pc[r] = "loading"
    /\ loaderState' = LoaderAfterFailedLoad
    /\ loadFailures' = loadFailures + 1
    /\ Return(r, ErrResult("Failed to load model"))
    /\ UNCHANGED <<appPhase, hasMps, hasCuda, device, sources, kind, proj,
                   handle, produced, stemPaths, written, loadCount, inferCount>>
    /\ UNCHANGED nonSplitVars

\* Mutant: a failed decode/resample is swallowed and the command goes on to
\* store whatever paths it has.
PrepareSwallowError(r) ==
    /\ pc[r] = "split"
    /\ \/ /\ pc' = [pc EXCEPT ![r] = "apply"]
          /\ inferCount' = inferCount + 1
       \/ /\ pc' = [pc EXCEPT ![r] = "lock_db"]
          /\ UNCHANGED inferCount
    /\ UNCHANGED <<appPhase, hasMps, hasCuda, device, sources, loaderState,
                   loaderLock, dbLock, kind, proj, handle, produced, result,
                   stemPaths, written, loadCount, loadFailures>>
    /\ UNCHANGED nonSplitVars

\* demucs/mod.rs 41-67 / 121-144: decode_file, resample, tensor conversion,
\* normalisation and reshape, up to the call of model.apply.  Each of the
\* first three may fail and the error leaves split_track through `?`;
\* from_shape_vec(..).unwrap() (48 / 128) and reshape([1, 2, length])
\* (65 / 142) panic, the latter for every track that has not two channels,
\* and then model.apply is not called.  A main.mp3 deleted since the
\* existence check cannot be decoded.
Prepare(r) ==
    /\ pc[r] = "split"
    /\ \/ /\ HasMainMp3(proj[r])
          /\ pc' = [pc EXCEPT ![r] = "apply"]
          /\ inferCount' = inferCount + 1
          /\ UNCHANGED <<result, loaderLock, dbLock>>
       \/ /\ \E e \in {"decode", "resample", "torch"} :
               /\ (e # "decode" => HasMainMp3(proj[r]))
               /\ Return(r, ErrResult(e))
          /\ UNCHANGED inferCount
       \/ /\ HasMainMp3(proj[r])
          /\ Return(r, [PanicResult EXCEPT !.error = "shape"])
          /\ UNCHANGED inferCount
    /\ UNCHANGED <<appPhase, hasMps, hasCuda, device, sources, loaderState,
                   kind, proj, handle, produced, stemPaths, written,
                   loadCount, loadFailures>>
    /\ UNCHANGED nonSplitVars

\* demucs/mod.rs 67 / 144: model.apply(input) returns, or the runtime fails.
Apply(r) ==
    /\ pc[r] = "apply"
    /\ \/ /\ pc' = [pc EXCEPT ![r] = "encode"]
          /\ UNCHANGED <<result, loaderLock, dbLock>>
       \/ Return(r, PanicResult)
    /\ UNCHANGED <<appPhase, hasMps, hasCuda, device, sources, loaderState,
                   kind, proj, handle, produced, stemPaths, written,
                   loadCount, loadFailures, inferCount>>
    /\ UNCHANGED nonSplitVars

\* demucs/mod.rs 77-114 / 184-213: post-process and encode the stems one by
\* one; n of them reach the disk before an encode error or a panic in
\* remove_clicks_pops (or all of them are written).
Encode(r) ==
    /\ pc[r] = "encode"
    /\ LET files == JoinAll(proj[r], OutputFiles(kind[r], sources))
       IN \E n \in 0..Len(files) :
            /\ written' = written \cup {files[i] : i \in 1..n}
            /\ IF n = Len(files)
               THEN /\ produced' = [produced EXCEPT ![r] = files]
                    /\ pc' = [pc EXCEPT ![r] = "lock_db"]
                    /\ UNCHANGED <<result, loaderLock, dbLock>>
               ELSE /\ \/ Return(r, ErrResult("encode"))
                       \/ Return(r, PanicResult)
                    /\ UNCHANGED produced
    /\ UNCHANGED <<appPhase, hasMps, hasCuda, device, sources, loaderState,
                   kind, proj, handle, stemPaths, loadCount, loadFailures,
                   inferCount>>
    /\ UNCHANGED nonSplitVars

\* Mutant: the loader guard is dropped once the stems are encoded, before
\* the database lock is awaited.
LockDbReleaseLoader(r) ==
    /\ pc[r] = "lock_db"
    /\ LockAvailable(dbLock)
    /\ dbLock' = r
    /\ loaderLock' = DropGuard(r, loaderLock)
    /\ pc' = [pc EXCEPT ![r] = "add_stems"]
    /\ UNCHANGED <<appPhase, hasMps, hasCuda, device, sources, loaderState,
                   kind, proj, handle, produced, result, stemPaths,
                   written, loadCount, loadFailures, inferCount>>
    /\ UNCHANGED nonSplitVars

\* split.rs 62 / 107: app_db_mutex.lock().await
LockDb(r) ==
    /\ pc[r] = "lock_db"
    /\ LockAvailable(dbLock)
    /\ dbLock' = r
    /\ pc' = [pc EXCEPT ![r] = "add_stems"]
    /\ UNCHANGED <<appPhase, hasMps, hasCuda, device, sources, loaderState,
                   loaderLock, kind, proj, handle, produced, result, stemPaths,
                   written, loadCount, loadFailures, inferCount>>
    /\ UNCHANGED nonSplitVars

\* data/mod.rs 159-182: update_one with $set stem_paths on the document of
\* the project; with no such document nothing is updated and the answer is
\* Ok all the same.
add_stems_to_project(db, p, paths) ==
    IF p \in DOMAIN db THEN [db EXCEPT ![p] = paths] ELSE db

\* split.rs 64-68 / 109-113: store the stems, answer Success or StemSaveError.
AddStems(r) ==
    /\ pc[r] = "add_stems"
    /\ \/ /\ stemPaths' = add_stems_to_project(stemPaths, proj[r], produced[r])
          /\ Return(r, OkResult(produced[r]))
       \/ /\ UNCHANGED stemPaths
          /\ Return(r, ErrResult("StemSaveError"))
    /\ UNCHANGED <<appPhase, hasMps, hasCuda, device, sources, loaderState,
                   kind, proj, handle, produced, written, loadCount,
                   loadFailures, inferCount>>
    /\ UNCHANGED nonSplitVars

\* data/mod.rs 214-216: delete_many on _id.
delete_many(db, p) == [q \in DOMAIN db \ {p} |-> db[q]]

\* data/mod.rs 220: delete_project_data removes the directory of the
\* project, main.mp3 and stems alike.
delete_project_data(files, p) == {f \in files : f[1] # p}

\* AppDb lives in State<Mutex<AppDb>> (main.rs 161): whoever calls
\* delete_project_by_id has taken the database mutex first.  None of the
\* commands registered in main.rs 162-168 does.
LockDbForDelete ==
    /\ appPhase = "running"
    /\ LockAvailable(dbLock)
    /\ dbLock' = Deleter
    /\ UNCHANGED <<appPhase, hasMps, hasCuda, device, sources, loaderState,
                   loaderLock, pc, kind, proj, handle, produced, result,
                   stemPaths, written, loadCount, loadFailures, inferCount>>
    /\ UNCHANGED nonSplitVars

\* data/mod.rs 212-225, AppDb::delete_project_by_id: delete_many fails and
\* nothing is deleted; or the document goes and so does the project's
\* directory; or the document goes and delete_project_data fails, where
\* expect panics with the directory still there.  The guard is dropped either
\* way.
DeleteProject(p) ==
    /\ dbLock = Deleter
    /\ dbLock' = 0
    /\ \/ UNCHANGED <<stemPaths, written>>
       \/ /\ stemPaths' = delete_many(stemPaths, p)
          /\ written' = delete_project_data(written, p)
       \/ /\ stemPaths' = delete_many(stemPaths, p)
          /\ UNCHANGED written
    /\ UNCHANGED <<appPhase, hasMps, hasCuda, device, sources, loaderState,
                   loaderLock, pc, kind, proj, handle, produced, result,
                   loadCount, loadFailures, inferCount>>
    /\ UNCHANGED nonSplitVars

Next ==
    \/ Setup
    \/ \E r \in Requests : Invoke(r)
    \/ \E r \in Requests : CheckAudio(r)
    \/ \E r \in Requests : LockLoader(r)
    \/ \E r \in Requests : GetOrLoadCached(r)
    \/ \E r \in Requests : GetOrLoadBegin(r)
    \/ \E r \in Requests : LoadOk(r)
    \/ \E r \in Requests : LoadFail(r)
    \/ \E r \in Requests : Prepare(r)
    \/ \E r \in Requests : Apply(r)
    \/ \E r \in Requests : Encode(r)
    \/ \E r \in Requests : LockDb(r)
    \/ \E r \in Requests : AddStems(r)
    \/ LockDbForDelete
    \/ \E p \in Projects : DeleteProject(p)

Spec == InitSplit /\ [][Next]_vars

(***************************************************************************)
(* Claims about the separation commands                                    *)
(***************************************************************************)
\* Request r is between get_or_load and the end of split_track /
\* split_vocal_instrumental.
InModelSection(r) ==
    pc[r] \in {"get_or_load", "loading", "split", "apply", "encode"}

AllDone == \A r \in Requests : pc[r] = "done"

\* C1: at most one request at a time is inside the load-or-inference
\* section, and a request is inside it only while it holds the model-loader
\* lock.
C1_OneRequestInModelSection ==
    /\ \A r \in Requests : InModelSection(r) => loaderLock = r
    /\ Cardinality({r \in Requests : InModelSection(r)}) <= 1

\* C1 witness: one request runs inference while another waits for the lock.
C1_Witness ==
    \E r, o \in Requests :
        /\ r # o
        /\ pc[r] = "apply"
        /\ pc[o] = "lock_loader"
        /\ loaderLock = r

\* Requests that got a model from get_or_load.
Served == {r \in Requests : handle[r] # "none"}

\* Requests that failed before model.apply was invoked.
FailedBeforeInference ==
    {r \in Requests :
        /\ pc[r] = "done"
        /\ result[r].error \in {"Audio file not found", "Failed to load model",
                                 "decode", "resample", "torch", "shape"}}

\* C2: with no failed load, the requests served by an initially unloaded
\* loader cause exactly one load; all but the loading request reuse the
\* cached handle; inferences never overlap; and when all N requests have
\* finished, each one that reached inference invoked it exactly once (N
\* invocations when none failed earlier).
C2_OneLoadNInferences ==
    loadFailures = 0 =>
        /\ loadCount = (IF Served = {} THEN 0 ELSE 1)
        /\ Cardinality({r \in Served : handle[r] = "loaded"}) = loadCount
        /\ \A r \in Served : handle[r] \in {"loaded", "cached"}
        /\ Cardinality({r \in Requests : pc[r] = "apply"}) <= 1
        /\ AllDone =>
              inferCount = MaxRequests - Cardinality(FailedBeforeInference)

\* C2 witness: all N requests finished successfully after one load and N
\* inferences.
C2_Witness ==
    /\ AllDone
    /\ \A r \in Requests : result[r].status = "ok"
    /\ loadCount = 1
    /\ inferCount = MaxRequests
    /\ \E r \in Requests : handle[r] = "cached"

\* C3: the step in which a request's model load fails ends that request
\* with an error, releases the loader lock, leaves the loader Unloaded and
\* touches no other request and no project record.
C3_LoadFailureIsLocal ==
    [][\A r \in Requests :
          (pc[r] = "loading" /\ pc'[r] = "done") =>
              /\ result'[r].status = "err"
              /\ loaderLock' = 0
              /\ loaderState' = "Unloaded"
              /\ stemPaths' = stemPaths
              /\ \A o \in Requests \ {r} :
                    pc'[o] = pc[o] /\ result'[o] = result[o]]_vars

\* C3 witness: one request failed to load, a later one loaded the model and
\* returned its stems.
C3_Witness ==
    \E r, o \in Requests :
        /\ result[r].error = "Failed to load model"
        /\ handle[o] = "loaded"
        /\ result[o].status = "ok"
        /\ loaderState = "Loaded"
        /\ loaderLock = 0

\* C4: a request that leaves split_track / split_vocal_instrumental through
\* a decode, resample or inference failure returns no stems and leaves every
\* project's stem_paths as they were; add_stems_to_project is reached only
\* with every stem produced, and every one of them was on disk when the
\* request left split_track / split_vocal_instrumental.
C4_FailedSplitStoresNothing ==
    /\ [][\A r \in Requests :
             (pc[r] \in {"split", "apply"} /\ pc'[r] \notin {pc[r], "apply", "encode"}) =>
                 /\ pc'[r] = "done"
                 /\ result'[r].status # "ok"
                 /\ result'[r].stems = <<>>
                 /\ stemPaths' = stemPaths]_vars
    /\ [](\A r \in Requests :
             pc[r] \in {"lock_db", "add_stems"} =>
                 produced[r] = JoinAll(proj[r], OutputFiles(kind[r], sources)))
    /\ [][\A r \in Requests :
             (pc[r] = "encode" /\ pc'[r] = "lock_db") =>
                 Range(produced'[r]) \subseteq written']_vars

\* C4 witness: a request failed in decode while the project already had
\* stems recorded by an earlier request; they are still recorded.
C4_Witness ==
    \E r, o \in Requests :
        /\ result[r].error = "decode"
        /\ result[o].status = "ok"
        /\ proj[r] = proj[o]
        /\ proj[r] \in DOMAIN stemPaths
        /\ stemPaths[proj[r]] = result[o].stems
        /\ stemPaths[proj[r]] # <<>>

(***************************************************************************)
(* Feature analysis: demucs/analysis.rs                                    *)
(*                                                                         *)
(* Samples are integers.  The smoothed envelope is carried as window sums  *)
(* (window_size times the f32 mean): it is only ever compared with itself  *)
(* and with 0.3 * max, and dividing both sides by window_size changes no   *)
(* comparison.  A BPM is the exact fraction <<numerator, denominator>> in  *)
(* lowest terms.                                                           *)
(***************************************************************************)
\* Longest file analysed, in samples per channel.
MaxTrackLen == 20

\* decode_file delivers the samples packet by packet; the packets used here:
\* one silent sample, a soft pulse and a loud pulse.
Chunks == {<<0>>, <<2, 0, 0, -2>>, <<8, 0, 0, -8>>}

\* Sample rates of the files analysed.
SampleRates == {20, 40, 80}

\* Channel layouts: mono, or stereo with right = gain * left.
Pans == {"mono", "left", "center", "inverted"}

RightGain(p) == CASE p = "left" -> 0 [] p = "center" -> 1 [] OTHER -> -1

Abs(x) == IF x < 0 THEN -x ELSE x

Min(a, b) == IF a < b THEN a ELSE b

Max(a, b) == IF a > b THEN a ELSE b

RECURSIVE Gcd(_, _)
Gcd(a, b) == IF b = 0 THEN a ELSE Gcd(b, a % b)

\* Sum of s[a..b] (1-based, inclusive; 0 when a > b).
RECURSIVE SumRange(_, _, _)
SumRange(s, a, b) == IF a > b THEN 0 ELSE s[a] + SumRange(s, a + 1, b)

\* 0.0 / 0.0 in f32.
NaN == -1

\* detect_bpm / detect_key 28-36, 184-192: stereo is averaged, anything else
\* keeps channel 0.
Downmix(t) ==
    IF t.nb_channels = 2
    THEN [i \in 1..Min(Len(t.samples[1]), Len(t.samples[2])) |->
             (t.samples[1][i] + t.samples[2][i]) \div 2]
    ELSE t.samples[1]

\* analysis.rs 63-66
Envelope(samples) == [i \in 1..Len(samples) |-> Abs(samples[i])]

\* analysis.rs 69-70: 100 ms, at least 1, at most a quarter of the signal.
BpmWindow(sample_rate, len) == Min(Max(sample_rate \div 10, 1), len \div 4)

\* analysis.rs 78-82: sliding window sums, len - window_size + 1 of them.
Smoothed(envelope, window_size) ==
    [i \in 1..(Len(envelope) - window_size + 1) |->
        IF window_size = 0 THEN NaN
        ELSE SumRange(envelope, i, i + window_size - 1)]

\* analysis.rs 149: fold(0.0, f32::max) over signal[i..], by halves.
RECURSIVE MaxVal(_, _)
MaxVal(signal, i) ==
    IF i > Len(signal) THEN 0
    ELSE IF i = Len(signal) THEN Max(signal[i], 0)
    ELSE LET m == (i + Len(signal)) \div 2
         IN  Max(MaxVal(SubSeq(signal, 1, m), i), MaxVal(signal, m + 1))

\* Mutant: values as large as the candidate are tolerated around it.
IsPeakNonStrict(signal, safe_window, max_val, i) ==
    /\ 10 * signal[i + 1] > 3 * max_val
    /\ \A j \in (i - safe_window)..(i - 1) : signal[j + 1] <= signal[i + 1]
    /\ \A j \in (i + 1)..(i + safe_window) : signal[j + 1] <= signal[i + 1]

\* analysis.rs 158-165: above threshold and strictly above the safe_window
\* values on each side (i is the 0-based index of the code).
IsPeak(signal, safe_window, max_val, i) ==
    /\ 10 * signal[i + 1] > 3 * max_val
    /\ \A j \in (i - safe_window)..(i - 1) : signal[j + 1] < signal[i + 1]
    /\ \A j \in (i + 1)..(i + safe_window) : signal[j + 1] < signal[i + 1]

\* analysis.rs 157-171: the loop from index i to `last`, exclusive; the
\* range is evaluated by halves, the peaks of the lower half first.
RECURSIVE PeaksFrom(_, _, _, _, _)
PeaksFrom(signal, safe_window, max_val, i, last) ==
    IF i >= last THEN <<>>
    ELSE IF i + 1 = last
    THEN (IF IsPeak(signal, safe_window, max_val, i) THEN <<i>> ELSE <<>>)
    ELSE LET m == (i + last) \div 2
         IN  PeaksFrom(signal, safe_window, max_val, i, m)
             \o PeaksFrom(signal, safe_window, max_val, m, last)

\* Mutant: no early return for a zero window.
find_peaks_no_zero_guard(signal, window_size) ==
    IF signal = <<>> THEN <<>>
    ELSE LET max_val == MaxVal(signal, 1)
             safe_window == Min(Max(window_size, 1), Len(signal) \div 4)
         IN IF max_val <= 0 THEN <<>>
            ELSE PeaksFrom(signal, safe_window, max_val, safe_window,
                           Max(Len(signal) - safe_window, 0))

\* analysis.rs 142-174: 0-based indices of the peaks, ascending.
find_peaks(signal, window_size) ==
    IF signal = <<>> \/ window_size = 0 THEN <<>>
    ELSE LET max_val == MaxVal(signal, 1)
             safe_window == Min(Max(window_size, 1), Len(signal) \div 4)
         IN IF max_val <= 0 THEN <<>>
            ELSE PeaksFrom(signal, safe_window, max_val, safe_window,
                           Max(Len(signal) - safe_window, 0))

\* Mutant: the fallback tempo is the lower clamp instead of 120.
DefaultBpmLow == <<60, 1>>

\* analysis.rs 59, 74, 85, 93, 107: the fallback tempo 120.0.
DefaultBpm == <<120, 1>>

\* Mutant: the estimate is returned unclamped.
BpmUnclamped(num, den) ==
    LET g == Gcd(num, den) IN <<num \div g, den \div g>>

\* Mutant: the lower clamp is 50 instead of 60.
BpmClampFloor50(num, den) ==
    IF num < 50 * den THEN <<50, 1>>
    ELSE IF num > 200 * den THEN <<200, 1>>
    ELSE LET g == Gcd(num, den) IN <<num \div g, den \div g>>

\* analysis.rs 134: bpm.clamp(60.0, 200.0) of num/den, den > 0.
BpmClamp(num, den) ==
    IF num < 60 * den THEN <<60, 1>>
    ELSE IF num > 200 * den THEN <<200, 1>>
    ELSE LET g == Gcd(num, den) IN <<num \div g, den \div g>>

\* analysis.rs 97-103: the positive gaps between consecutive peaks.
RECURSIVE Intervals(_, _)
Intervals(peaks, i) ==
    IF i >= Len(peaks) THEN <<>>
    ELSE (IF peaks[i + 1] - peaks[i] > 0 THEN <<peaks[i + 1] - peaks[i]>>
          ELSE <<>>)
         \o Intervals(peaks, i + 1)

\* analysis.rs 57-139
estimate_bpm_from_envelope(samples, sample_rate) ==
    IF samples = <<>> THEN DefaultBpm
    ELSE
    LET envelope == Envelope(samples)
        window_size == BpmWindow(sample_rate, Len(samples))
    IN  IF Len(envelope) < window_size * 2 THEN DefaultBpm
        ELSE
        LET smoothed == Smoothed(envelope, window_size)
            peaks == find_peaks(smoothed, window_size \div 4)
        IN  IF smoothed = <<>> \/ Len(peaks) < 2 THEN DefaultBpm
            ELSE
            LET intervals == Intervals(peaks, 1)
                total == SumRange(intervals, 1, Len(intervals))
            IN  \* avg_interval = total / n; samples_per_peak = avg * window;
                \* bpm = sample_rate / samples_per_peak * 60
                IF intervals = <<>> \/ total <= 0 \/ total * window_size <= 0
                THEN DefaultBpm
                ELSE BpmClamp(60 * sample_rate * Len(intervals),
                              total * window_size)

\* analysis.rs 231
Keys == <<"C major", "D major", "E major", "F major", "G major", "A major",
          "B major">>

\* Mutant: the index is taken modulo the 12 pitch classes.
estimate_key_mod12(samples, sample_rate) ==
    IF samples = <<>> THEN "C major"
    ELSE Keys[((Len(samples) % 12) % Len(Keys)) + 1]

\* analysis.rs 207-237
estimate_key_from_chroma(samples, sample_rate) ==
    IF samples = <<>> THEN "C major"
    ELSE Keys[(Len(samples) % Len(Keys)) + 1]

\* Result<PcmAudioData> of decode_file.
DecodeFailed == [ok |-> FALSE, track |-> NoTrack]

Decoded(t) == [ok |-> TRUE, track |-> t]

\* Ok(Some(v)) of detect_bpm / detect_key.
OkSome(v) == [ok |-> TRUE, some |-> TRUE, value |-> v]

\* analysis.rs 12-54, given the outcome of decode_file.
detect_bpm(decoded) ==
    IF ~decoded.ok THEN NoBpm
    ELSE OkSome(estimate_bpm_from_envelope(Downmix(decoded.track),
                                           decoded.track.sample_rate))

\* analysis.rs 180-198, given the outcome of decode_file.
detect_key(decoded) ==
    IF ~decoded.ok THEN NoKey
    ELSE OkSome(estimate_key_from_chroma(Downmix(decoded.track),
                                         decoded.track.sample_rate))

\* The track with one more packet: the left channel gets the chunk, the right
\* channel (stereo) the chunk times the layout's gain.
AppendChunk(t, p, chunk) ==
    LET left == t.samples[1] \o chunk
    IN  [t EXCEPT
           !.samples = IF p = "mono" THEN <<left>>
                       ELSE <<left,
                              t.samples[2] \o
                                [i \in 1..Len(chunk) |-> RightGain(p) * chunk[i]]>>,
           !.length = Len(left)]

\* A freshly opened file: no samples yet.
OpenTrack(p, rate) ==
    [samples |-> IF p = "mono" THEN << <<>> >> ELSE << <<>>, <<>> >>,
     sample_rate |-> rate,
     nb_channels |-> IF p = "mono" THEN 1 ELSE 2,
     length |-> 0]

SplitIdle ==
    /\ appPhase = "off"
    /\ hasMps = FALSE
    /\ hasCuda = FALSE
    /\ device = "none"
    /\ sources = <<>>
    /\ loaderState = "NotCreated"
    /\ loaderLock = 0
    /\ dbLock = 0
    /\ pc = [r \in Requests |-> "idle"]
    /\ kind = [r \in Requests |-> "none"]
    /\ proj = [r \in Requests |-> "none"]
    /\ handle = [r \in Requests |-> "none"]
    /\ produced = [r \in Requests |-> <<>>]
    /\ result = [r \in Requests |-> NoResult]
    /\ stemPaths = [p \in Projects |-> <<>>]
    /\ written = {}
    /\ loadCount = 0
    /\ loadFailures = 0
    /\ inferCount = 0

InitAnalysis ==
    /\ SplitIdle
    /\ ProjectIdle
    /\ FilterIdle
    /\ SeparateIdle
    /\ PeaksIdle
    /\ TempoIdle
    /\ NoiseIdle
    /\ anPc = "decoding"
    /\ pan \in Pans
    /\ \E rate \in SampleRates : track = OpenTrack(pan, rate)
    /\ bpmOut = NoBpm
    /\ keyOut = NoKey

\* analysis.rs 15: the decode_file of detect_bpm reads one more packet of the
\* audio file.
DecodePacket ==
    /\ anPc = "decoding"
    /\ \E chunk \in Chunks :
         /\ track.length + Len(chunk) <= MaxTrackLen
         /\ track' = AppendChunk(track, pan, chunk)
    /\ UNCHANGED <<anPc, pan, bpmOut, keyOut>>
    /\ UNCHANGED nonAnalysisVars

\* analysis.rs 15: the decode_file of detect_bpm reaches the end of the
\* stream and returns the track, or returns an error.  The file itself is
\* what it was: a later decode_file reads the same packets.
DecodeEnd ==
    /\ anPc = "decoding"
    /\ anPc' \in {"decoded", "failed"}
    /\ UNCHANGED <<pan, track, bpmOut, keyOut>>
    /\ UNCHANGED nonAnalysisVars

\* create_project 89: detect_bpm(&audio_path)
DetectBpm ==
    /\ anPc \in {"decoded", "failed"}
    /\ bpmOut' = detect_bpm(IF anPc = "failed" THEN DecodeFailed
                            ELSE Decoded(track))
    /\ anPc' = IF anPc = "failed" THEN "bpm_failed" ELSE "bpm_done"
    /\ UNCHANGED <<pan, track, keyOut>>
    /\ UNCHANGED nonAnalysisVars

\* create_project 90: detect_key(&audio_path).  analysis.rs 181: detect_key
\* decodes the file again, and this decode_file succeeds or fails whatever
\* the one of detect_bpm did.
DetectKey ==
    /\ anPc \in {"bpm_done", "bpm_failed"}
    /\ \E decoded \in {Decoded(track), DecodeFailed} :
         /\ keyOut' = detect_key(decoded)
         /\ anPc' = IF anPc = "bpm_done"
                    THEN (IF decoded.ok THEN "bpm_done_key_done"
                          ELSE "bpm_done_key_failed")
                    ELSE (IF decoded.ok THEN "bpm_failed_key_done"
                          ELSE "bpm_failed_key_failed")
    /\ UNCHANGED <<pan, track, bpmOut>>
    /\ UNCHANGED nonAnalysisVars

NextAnalysis ==
    \/ DecodePacket
    \/ DecodeEnd
    \/ DetectBpm
    \/ DetectKey

SpecAnalysis == InitAnalysis /\ [][NextAnalysis]_vars

(***************************************************************************)
(* Claims about the estimators                                             *)
(***************************************************************************)
\* detect_bpm has returned and its decode_file had succeeded.
BpmReturned ==
    anPc \in {"bpm_done", "bpm_done_key_done", "bpm_done_key_failed"}

\* detect_key has returned and its decode_file had succeeded.
KeyReturned == anPc \in {"bpm_done_key_done", "bpm_failed_key_done"}

\* The mono signal and the window the estimator works with.
Mono == Downmix(track)

MonoWindow == BpmWindow(track.sample_rate, Len(Mono))

MonoPeaks ==
    find_peaks(Smoothed(Envelope(Mono), MonoWindow), MonoWindow \div 4)

\* C6: for every decoded track detect_bpm returns Ok(Some(bpm)) with
\* 60 <= bpm <= 200.
C6_BpmDefiniteAndInRange ==
    BpmReturned =>
        /\ bpmOut.ok
        /\ bpmOut.some
        /\ bpmOut.value[2] > 0
        /\ 60 * bpmOut.value[2] <= bpmOut.value[1]
        /\ bpmOut.value[1] <= 200 * bpmOut.value[2]

\* C6 witness: a track whose estimate is a real tempo strictly inside the
\* range and different from the fallback.
C6_Witness ==
    /\ BpmReturned
    /\ bpmOut.ok
    /\ 60 * bpmOut.value[2] < bpmOut.value[1]
    /\ bpmOut.value[1] < 200 * bpmOut.value[2]
    /\ bpmOut.value # <<120, 1>>

\* The window with the lower bound of the clamp prevailing: the code's
\* .max(1).min(len / 4) gives 0 for a signal of 1..3 samples, a clamp to
\* [1, len / 4] that keeps its lower bound gives 1.
ClampedWindow == Max(MonoWindow, 1)

\* C7: the estimate is exactly 120 when the mono signal is empty, when it has
\* fewer than 2w samples, and when fewer than 2 peaks are found.  With the
\* code's own w no nonempty signal has fewer than 2w samples (the test of
\* analysis.rs 72 never fires, last conjunct); with w >= 1 the signal of one
\* sample has, and it is answered with 120 as well.
C7_FallbackIs120 ==
    BpmReturned =>
        /\ Mono = <<>> => bpmOut.value = <<120, 1>>
        /\ Len(Mono) < 2 * ClampedWindow => bpmOut.value = <<120, 1>>
        /\ Len(MonoPeaks) < 2 => bpmOut.value = <<120, 1>>
        /\ Mono # <<>> => Len(Mono) >= 2 * MonoWindow

\* C7 witness: a nonempty signal with a window of at least 4 samples and
\* exactly one peak, answered with 120.
C7_Witness ==
    /\ BpmReturned
    /\ MonoWindow >= 4
    /\ Len(MonoPeaks) = 1
    /\ bpmOut.value = <<120, 1>>

\* C7 witness for the empty signal.
C7_WitnessEmpty ==
    /\ BpmReturned
    /\ Mono = <<>>
    /\ bpmOut.value = <<120, 1>>

\* C7 witness for the signal too short to hold a window: one sample, w = 0
\* in the code, no peak.
C7_WitnessShort ==
    /\ BpmReturned
    /\ Len(Mono) = 1
    /\ MonoWindow = 0
    /\ Len(Mono) < 2 * ClampedWindow
    /\ MonoPeaks = <<>>
    /\ bpmOut.value = <<120, 1>>

\* The label the fixed list gives for a signal of n samples.
ExpectedKey(n) ==
    CASE n % 7 = 0 -> "C major"
      [] n % 7 = 1 -> "D major"
      [] n % 7 = 2 -> "E major"
      [] n % 7 = 3 -> "F major"
      [] n % 7 = 4 -> "G major"
      [] n % 7 = 5 -> "A major"
      [] OTHER -> "B major"

\* C8: detect_key answers "C major" for an empty signal and otherwise the
\* label at index n mod 7 of the fixed list, n the number of samples; the
\* answer is a function of n alone and one of the 7 labels.
C8_KeyIsLengthMod7 ==
    KeyReturned =>
        /\ keyOut.ok /\ keyOut.some
        /\ keyOut.value = ExpectedKey(track.length)
        /\ track.length = 0 => keyOut.value = "C major"
        /\ keyOut.value \in {"C major", "D major", "E major", "F major",
                             "G major", "A major", "B major"}

\* C8 witness: a signal of more than 7 samples whose length is 6 mod 7.
C8_Witness ==
    /\ anPc = "bpm_done_key_done"
    /\ track.length > 7
    /\ track.length % 7 = 6
    /\ keyOut.value = "B major"

\* C8 witness: the decode of detect_bpm failed, the one of detect_key did
\* not, and the key is the label of the file's length.
C8_WitnessAfterFailedBpm ==
    /\ anPc = "bpm_failed_key_done"
    /\ ~bpmOut.ok
    /\ track.length % 7 = 4
    /\ keyOut.value = "G major"

(***************************************************************************)
(* AppDb::create_project: data/mod.rs 49-157                               *)
(***************************************************************************)
\* The track made of the given packets.
RECURSIVE MakeTrack(_, _, _)
MakeTrack(p, rate, chunks) ==
    IF chunks = <<>> THEN OpenTrack(p, rate)
    ELSE AppendChunk(MakeTrack(p, rate, SubSeq(chunks, 1, Len(chunks) - 1)),
                     p, chunks[Len(chunks)])

\* Packet sequences of the audio files a project is created from: an empty
\* stream, a single sample, a single pulse, and two files with several beats.
FilePackets ==
    {<<>>,
     << <<0>> >>,
     << <<2, 0, 0, -2>> >>,
     << <<0>>, <<8, 0, 0, -8>>, <<2, 0, 0, -2>>, <<8, 0, 0, -8>>, <<2, 0, 0, -2>> >>,
     << <<2, 0, 0, -2>>, <<0>>, <<0>>, <<2, 0, 0, -2>>, <<0>>, <<0>>, <<0>>,
        <<2, 0, 0, -2>>, <<0>>, <<0>> >>}

ProjectFiles ==
    {MakeTrack(p, rate, chunks) :
        p \in {"mono", "left"}, rate \in {40, 80}, chunks \in FilePackets}

\* data/mod.rs 63-71: the document inserted first.
NewProject == [present |-> TRUE, stem_paths |-> <<>>, bpm |-> NoneBpm,
               key |-> NoneKey]

\* data/mod.rs 104-105: result.ok().flatten()
OkFlatten(res, none) ==
    IF res.ok /\ res.some THEN [some |-> TRUE, value |-> res.value] ELSE none

\* data/mod.rs 109-125: the $set document, as the fields it sets.
UpdateDoc(bpm, key) ==
    (IF bpm.some THEN {"bpm"} ELSE {}) \cup (IF key.some THEN {"key"} ELSE {})

\* data/mod.rs 130-133: update_one applied to the stored document.
ApplyUpdate(doc, bpm, key) ==
    [doc EXCEPT !.bpm = IF bpm.some THEN bpm ELSE @,
                !.key = IF key.some THEN key ELSE @]

ErrProject(e) == [status |-> "err", error |-> e, project |-> NoDoc]

OkProject(doc) == [status |-> "ok", error |-> "", project |-> doc]

InitProject ==
    /\ SplitIdle
    /\ FilterIdle
    /\ SeparateIdle
    /\ PeaksIdle
    /\ TempoIdle
    /\ NoiseIdle
    /\ anPc = "off"
    /\ pan = "mono"
    /\ track \in ProjectFiles
    /\ bpmOut = NoBpm
    /\ keyOut = NoKey
    /\ cpPc = "start"
    /\ cpDoc = NoDoc
    /\ cpUpdate = "none"
    /\ cpResult = NoProjectResult

\* data/mod.rs 50-76: insert the document, copy the song into the project
\* (insert_one may fail; copy_song_to_project is unwrapped with expect).
CreateInsert ==
    /\ cpPc = "start"
    /\ \/ /\ cpDoc' = NewProject
          /\ cpPc' = "inserted"
          /\ UNCHANGED cpResult
       \/ /\ cpResult' = ErrProject("")
          /\ cpPc' = "done"
          /\ UNCHANGED cpDoc
       \/ /\ cpDoc' = NewProject
          /\ cpResult' = [status |-> "panic", error |-> "Failed to copy song",
                          project |-> NoDoc]
          /\ cpPc' = "done"
    /\ UNCHANGED <<cpUpdate, splitVars, analysisVars, filterVars,
                 separateVars, peakVars, tempoVars, noiseVars>>

\* Mutant: a failed detection is propagated with `?`.
DetectFeaturesPropagate ==
    /\ cpPc = "inserted"
    /\ \E d1, d2 \in {DecodeFailed, Decoded(track)} :
         /\ bpmOut' = detect_bpm(d1)
         /\ keyOut' = detect_key(d2)
         /\ IF d1.ok /\ d2.ok
            THEN cpPc' = "detected" /\ UNCHANGED cpResult
            ELSE cpPc' = "done" /\ cpResult' = ErrProject("detection failed")
    /\ UNCHANGED <<cpDoc, cpUpdate, splitVars, anPc, pan, track, filterVars,
                 separateVars, peakVars, tempoVars, noiseVars>>

\* data/mod.rs 89-90: detect_bpm and detect_key each decode the copied file.
DetectFeatures ==
    /\ cpPc = "inserted"
    /\ \E d1, d2 \in {DecodeFailed, Decoded(track)} :
         /\ bpmOut' = detect_bpm(d1)
         /\ keyOut' = detect_key(d2)
    /\ cpPc' = "detected"
    /\ UNCHANGED <<cpDoc, cpUpdate, cpResult, splitVars, anPc, pan, track,
                   filterVars,
                 separateVars, peakVars, tempoVars, noiseVars>>

\* data/mod.rs 104-146: store what was detected; a failed update is logged.
UpdateFeatures ==
    /\ cpPc = "detected"
    /\ LET bpm == OkFlatten(bpmOut, NoneBpm)
           key == OkFlatten(keyOut, NoneKey)
       IN  IF UpdateDoc(bpm, key) = {}
           THEN cpUpdate' = "skipped" /\ UNCHANGED cpDoc
           ELSE \/ cpUpdate' = "ok" /\ cpDoc' = ApplyUpdate(cpDoc, bpm, key)
                \/ cpUpdate' = "failed" /\ UNCHANGED cpDoc
    /\ cpPc' = "updated"
    /\ UNCHANGED <<cpResult, splitVars, analysisVars, filterVars,
                 separateVars, peakVars, tempoVars, noiseVars>>

\* data/mod.rs 149-156: read the document back and return it.
FindUpdated ==
    /\ cpPc = "updated"
    /\ \/ cpResult' = OkProject(cpDoc)
       \/ cpResult' = ErrProject("Failed to find updated project")
       \/ cpResult' = ErrProject("Project not found after update")
    /\ cpPc' = "done"
    /\ UNCHANGED <<cpDoc, cpUpdate, splitVars, analysisVars, filterVars,
                 separateVars, peakVars, tempoVars, noiseVars>>

NextProject ==
    \/ CreateInsert
    \/ DetectFeatures
    \/ UpdateFeatures
    \/ FindUpdated

SpecProject == InitProject /\ [][NextProject]_vars

\* C5: once the project is inserted, create_project fails only if the final
\* read-back fails, never because BPM detection, key detection or the update
\* failed; a feature whose detection failed is stored as None, and with a
\* successful update every feature that was detected is stored and returned.
C5_DetectionNeverAborts ==
    (cpPc = "done" /\ cpDoc.present) =>
        /\ cpResult.status = "err" =>
              cpResult.error \in {"Failed to find updated project",
                                  "Project not found after update"}
        /\ cpResult.status = "ok" => cpResult.project = cpDoc
        /\ ~bpmOut.ok => ~cpDoc.bpm.some
        /\ ~keyOut.ok => ~cpDoc.key.some
        /\ cpUpdate = "ok" =>
              /\ bpmOut.ok => cpDoc.bpm = [some |-> TRUE, value |-> bpmOut.value]
              /\ keyOut.ok => cpDoc.key = [some |-> TRUE, value |-> keyOut.value]
        /\ cpUpdate = "failed" => cpDoc = NewProject

\* C5 witness: BPM detection failed, key detection succeeded; the project is
\* returned with no BPM and with its key.
C5_Witness ==
    /\ cpPc = "done"
    /\ ~bpmOut.ok
    /\ keyOut.ok
    /\ cpResult.status = "ok"
    /\ ~cpResult.project.bpm.some
    /\ cpResult.project.key = [some |-> TRUE, value |-> keyOut.value]

\* C5 witness: the update failed and the project is still returned.
C5_WitnessUpdateFailed ==
    /\ cpPc = "done"
    /\ cpUpdate = "failed"
    /\ cpResult.status = "ok"

(***************************************************************************)
(* Post-processing filter bank: demucs/mod.rs 217-385                      *)
(*                                                                         *)
(* Fixed point: a sample is an integer number of millionths (1.0 is        *)
(* 1000000), a filter coefficient an integer number of millionths, every   *)
(* product is rounded toward zero to a whole millionth.  The f32 values of *)
(* the code carry 24 bits, so a millionth is below what decides any        *)
(* comparison the filters make on the buffers below.  Sample rates are     *)
(* positive.                                                               *)
(***************************************************************************)
\* Longest stem buffer, in samples per channel.
MaxFrames == 5

\* Sample values: a negative and a positive full-scale click, silence, and a
\* quiet sample of amplitude 0.1.
Levels == {-1000000, 0, 100000, 1000000}

\* Sample rates: 200 Hz gives a 2-sample noise window and no click window;
\* 1000 and 2000 Hz give click windows of 1 and 2 samples.
FilterRates == {200, 1000, 2000}

\* The six source names of htdemucs_6s and one name no policy knows.
StemNames == {"drums", "bass", "other", "vocals", "guitar", "piano", "mix"}

\* a / b rounded toward zero, b > 0.
Trunc(a, b) == IF a >= 0 THEN a \div b ELSE -((-a) \div b)

Reverse(s) == [i \in 1..Len(s) |-> s[Len(s) + 1 - i]]

\* mod.rs 271 / 289: 2 * PI * cutoff in thousandths, rounded down
\* (2 * PI = 6.2831853...).
Omega(cutoff) == 6283 * cutoff + (1853 * cutoff) \div 10000

\* The first k decimal digits of n / d as an integer, for 0 <= n < d: long
\* division, one digit a step.
RECURSIVE FracDigits(_, _, _)
FracDigits(n, d, k) ==
    IF k = 0 THEN 0
    ELSE ((n * 10) \div d) * 10^(k - 1) + FracDigits((n * 10) % d, d, k - 1)

\* mod.rs 271-273: alpha = rc / (rc + dt) = sample_rate / (sample_rate +
\* 2 * PI * cutoff), in millionths.
AlphaHighPass(sample_rate, cutoff) ==
    FracDigits(1000 * sample_rate, 1000 * sample_rate + Omega(cutoff), 6)

\* mod.rs 289-291: alpha = dt / (rc + dt) = 2 * PI * cutoff / (sample_rate +
\* 2 * PI * cutoff), in millionths.
AlphaLowPass(sample_rate, cutoff) ==
    FracDigits(Omega(cutoff), 1000 * sample_rate + Omega(cutoff), 6)

\* mod.rs 281 / 296: alpha * x for a coefficient alpha in 0..1000000 and a
\* sample x, both in millionths, rounded toward zero to a millionth.  The
\* product is summed from the thousands and units of the two factors.
MulMicro(alpha, x) ==
    LET ah == alpha \div 1000
        al == alpha % 1000
        xh == Abs(x) \div 1000
        xl == Abs(x) % 1000
        p == ah * xh + (ah * xl + al * xh + (al * xl) \div 1000) \div 1000
    IN  IF x < 0 THEN -p ELSE p

\* mod.rs 278-284: the loop from sample i (1-based) on.
RECURSIVE HighPassFrom(_, _, _, _, _)
HighPassFrom(samples, alpha, i, prev_input, prev_output) ==
    IF i > Len(samples) THEN <<>>
    ELSE LET input == samples[i]
             output == MulMicro(alpha, prev_output + input - prev_input)
         IN  <<output>> \o HighPassFrom(samples, alpha, i + 1, input, output)

\* Mutant: the recurrence starts at the second sample and the first one is
\* dropped from the result.
apply_high_pass_filter_skip_first(samples, sample_rate, cutoff) ==
    HighPassFrom(samples, AlphaHighPass(sample_rate, cutoff), 2, 0, 0)

\* mod.rs 270-285
apply_high_pass_filter(samples, sample_rate, cutoff) ==
    HighPassFrom(samples, AlphaHighPass(sample_rate, cutoff), 1, 0, 0)

\* mod.rs 295-299: the loop from sample i (1-based) on.
RECURSIVE LowPassFrom(_, _, _, _)
LowPassFrom(samples, alpha, i, prev_output) ==
    IF i > Len(samples) THEN <<>>
    ELSE LET output == prev_output + MulMicro(alpha, samples[i] - prev_output)
         IN  <<output>> \o LowPassFrom(samples, alpha, i + 1, output)

\* mod.rs 288-300
apply_low_pass_filter(samples, sample_rate, cutoff) ==
    LowPassFrom(samples, AlphaLowPass(sample_rate, cutoff), 1, 0)

\* Mutant: the two stages in the other order.
apply_band_pass_filter_low_first(samples, sample_rate, low_cut, high_cut) ==
    apply_high_pass_filter(apply_low_pass_filter(samples, sample_rate, high_cut),
                           sample_rate, low_cut)

\* mod.rs 303-308: high-pass at low_cut, then low-pass at high_cut.
apply_band_pass_filter(samples, sample_rate, low_cut, high_cut) ==
    apply_low_pass_filter(apply_high_pass_filter(samples, sample_rate, low_cut),
                          sample_rate, high_cut)

\* mod.rs 312: (sample_rate as f32 * 0.01) as usize
NoiseWindow(sample_rate) == sample_rate \div 100

\* mod.rs 311-330: the window is samples[i-w .. i+w) (0-based i), the blend
\* 0.7 * original + 0.3 * smoothed is applied to every sample and cut to a
\* millionth; what the blend does to the last bit of an f32 is below this
\* resolution (see apply_noise_reduction_f32).
apply_noise_reduction(samples, sample_rate) ==
    LET window_size == NoiseWindow(sample_rate)
    IN  IF window_size < 2 \/ Len(samples) < window_size * 2 THEN samples
        ELSE LET smoothed ==
                   [k \in 1..Len(samples) |->
                      IF k - 1 >= window_size /\ k - 1 < Len(samples) - window_size
                      THEN Trunc(SumRange(samples, k - window_size,
                                          k + window_size - 1),
                                 window_size * 2)
                      ELSE samples[k]]
             IN  [k \in 1..Len(samples) |->
                    Trunc(samples[k] * 7 + smoothed[k] * 3, 10)]

\* Mutant: drums and unrecognized names fall through to the "other" policy.
post_process_stem_default_other(buffer, stem_type, sample_rate) ==
    [c \in 1..Len(buffer) |->
        CASE stem_type = "bass" ->
               apply_low_pass_filter(buffer[c], sample_rate, 400)
          [] stem_type = "vocals" ->
               apply_band_pass_filter(buffer[c], sample_rate, 300, 3400)
          [] stem_type = "guitar" ->
               apply_band_pass_filter(buffer[c], sample_rate, 80, 8000)
          [] stem_type = "piano" ->
               apply_band_pass_filter(buffer[c], sample_rate, 80, 15000)
          [] OTHER ->
               apply_noise_reduction(
                   apply_high_pass_filter(buffer[c], sample_rate, 80),
                   sample_rate)]

\* mod.rs 217-267
post_process_stem(buffer, stem_type, sample_rate) ==
    [c \in 1..Len(buffer) |->
        CASE stem_type = "other" ->
               apply_noise_reduction(
                   apply_high_pass_filter(buffer[c], sample_rate, 80),
                   sample_rate)
          [] stem_type = "bass" ->
               apply_low_pass_filter(buffer[c], sample_rate, 400)
          [] stem_type = "vocals" ->
               apply_band_pass_filter(buffer[c], sample_rate, 300, 3400)
          [] stem_type = "guitar" ->
               apply_band_pass_filter(buffer[c], sample_rate, 80, 8000)
          [] stem_type = "piano" ->
               apply_band_pass_filter(buffer[c], sample_rate, 80, 15000)
          [] OTHER -> buffer[c]]

\* mod.rs 357: the clip threshold 0.9
ClickThreshold == 900000

\* mod.rs 358: (sample_rate as f32 * 0.001) as usize
ClickWindow(sample_rate) == sample_rate \div 1000

\* Sum of |s[a..b]| (1-based, inclusive).
RECURSIVE SumAbs(_, _, _)
SumAbs(s, a, b) == IF a > b THEN 0 ELSE Abs(s[a]) + SumAbs(s, a + 1, b)

\* f32::signum of a nonzero sample
Signum(x) == IF x < 0 THEN -1 ELSE 1

\* Mutant: a sample is repaired only when it exceeds three times BOTH
\* neighbouring averages.
RepairAtBothSides(channel, window_size, i) ==
    LET current == Abs(channel[i + 1])
        prev_sum == SumAbs(channel, i - window_size + 1, i)
        next_sum == SumAbs(channel, i + 2, i + window_size + 1)
    IN  IF /\ current > ClickThreshold
           /\ window_size > 0
           /\ current * window_size > prev_sum * 3
           /\ current * window_size > next_sum * 3
        THEN [channel EXCEPT ![i + 1] =
                 Trunc(prev_sum + next_sum, 2 * window_size)
                 * Signum(channel[i + 1])]
        ELSE channel

\* mod.rs 362-382: the body of the loop for 0-based index i.  With
\* window_size = 0 both averages are 0.0 / 0.0 = NaN and no comparison with
\* them holds.
RepairAt(channel, window_size, i) ==
    LET current == Abs(channel[i + 1])
        prev_sum == SumAbs(channel, i - window_size + 1, i)
        next_sum == SumAbs(channel, i + 2, i + window_size + 1)
    IN  IF /\ current > ClickThreshold
           /\ window_size > 0
           /\ \/ current * window_size > prev_sum * 3
              \/ current * window_size > next_sum * 3
        THEN [channel EXCEPT ![i + 1] =
                 Trunc(prev_sum + next_sum, 2 * window_size)
                 * Signum(channel[i + 1])]
        ELSE channel

\* mod.rs 361-383: the loop `for i in first..last` over one channel, in place.
RECURSIVE RepairFrom(_, _, _, _)
RepairFrom(channel, window_size, i, last) ==
    IF i >= last THEN channel
    ELSE RepairFrom(RepairAt(channel, window_size, i), window_size, i + 1, last)

\* Mutant: the loop runs over every index, with the neighbour windows cut
\* at the ends of the channel.
RepairAtClipped(channel, window_size, i) ==
    LET current == Abs(channel[i + 1])
        prev_sum == SumAbs(channel, Max(i - window_size + 1, 1), i)
        next_sum == SumAbs(channel, i + 2, Min(i + window_size + 1, Len(channel)))
    IN  IF /\ current > ClickThreshold
           /\ window_size > 0
           /\ \/ current * window_size > prev_sum * 3
              \/ current * window_size > next_sum * 3
        THEN [channel EXCEPT ![i + 1] =
                 Trunc(prev_sum + next_sum, 2 * window_size)
                 * Signum(channel[i + 1])]
        ELSE channel

RECURSIVE RepairAllFrom(_, _, _)
RepairAllFrom(channel, window_size, i) ==
    IF i >= Len(channel) THEN channel
    ELSE RepairAllFrom(RepairAtClipped(channel, window_size, i), window_size,
                       i + 1)

RepairWholeChannel(channel, window_size) ==
    [panicked |-> FALSE, samples |-> RepairAllFrom(channel, window_size, 0)]

\* mod.rs 361: `window_size..(channel.len() - window_size)`.  The usize
\* subtraction underflows when the channel is shorter than the window: a
\* panic with overflow checks, and without them a wrapped bound whose first
\* index, window_size, is out of range, which panics in channel[i].  Either
\* way the channel is left as it was.
RepairChannel(channel, window_size) ==
    IF Len(channel) < window_size
    THEN [panicked |-> TRUE, samples |-> channel]
    ELSE [panicked |-> FALSE,
          samples |-> RepairFrom(channel, window_size, window_size,
                                 Len(channel) - window_size)]

\* mod.rs 360: the channels are repaired in order; a panic ends the call.
RECURSIVE RepairChannels(_, _, _)
RepairChannels(samples, window_size, c) ==
    IF c > Len(samples) THEN [panicked |-> FALSE, samples |-> samples]
    ELSE LET r == RepairChannel(samples[c], window_size)
         IN  IF r.panicked THEN [panicked |-> TRUE, samples |-> samples]
             ELSE RepairChannels([samples EXCEPT ![c] = r.samples],
                                 window_size, c + 1)

\* mod.rs 356-385
remove_clicks_pops(samples, sample_rate) ==
    RepairChannels(samples, ClickWindow(sample_rate), 1)

\* Channel sequences of at most n samples.
RECURSIVE ChannelsUpTo(_)
ChannelsUpTo(n) ==
    IF n = 0 THEN {<<>>}
    ELSE LET shorter == ChannelsUpTo(n - 1)
         IN  shorter \cup {Append(s, x) : s \in {t \in shorter : Len(t) = n - 1},
                                          x \in Levels}

\* Stem buffers: no channel, one channel, or two channels of equal length.
StemBuffers ==
    {<<>>} \cup {<<s>> : s \in ChannelsUpTo(MaxFrames)}
           \cup {<<s, Reverse(s)>> : s \in ChannelsUpTo(MaxFrames)}

InitFilter ==
    /\ SplitIdle
    /\ AnalysisIdle
    /\ ProjectIdle
    /\ SeparateIdle
    /\ PeaksIdle
    /\ TempoIdle
    /\ NoiseIdle
    /\ fPc = "raw"
    /\ fRate \in FilterRates
    /\ fStem \in StemNames
    /\ fIn \in StemBuffers
    /\ fShaped = <<>>
    /\ fOut = <<>>

\* mod.rs 94 / 185 / 189: post_process_stem(&buffer, source, sample_rate)
PostProcess ==
    /\ fPc = "raw"
    /\ fShaped' = post_process_stem(fIn, fStem, fRate)
    /\ fPc' = "shaped"
    /\ UNCHANGED <<fRate, fStem, fIn, fOut>>
    /\ UNCHANGED nonFilterVars

\* mod.rs 97 / 186 / 190: remove_clicks_pops(&mut processed_buffer, rate)
RemoveClicks ==
    /\ fPc = "shaped"
    /\ LET r == remove_clicks_pops(fShaped, fRate)
       IN  /\ fOut' = r.samples
           /\ fPc' = IF r.panicked THEN "panicked" ELSE "repaired"
    /\ UNCHANGED <<fRate, fStem, fIn, fShaped>>
    /\ UNCHANGED nonFilterVars

NextFilter ==
    \/ PostProcess
    \/ RemoveClicks

SpecFilter == InitFilter /\ [][NextFilter]_vars

(***************************************************************************)
(* Claims about the filter bank                                            *)
(***************************************************************************)
\* C9: post-processing and click repair never fail, whatever the buffer and
\* the sample rate (an empty channel and a channel shorter than the click
\* window included).
C9_PostProcessingNeverFails == fPc # "panicked"

\* C10: click repair leaves every sample within the first w and the last w
\* samples of its channel as it was (w = the 1 ms window).
C10_ClickRepairKeepsEdges ==
    fPc \in {"repaired", "panicked"} =>
        /\ Len(fOut) = Len(fShaped)
        /\ \A c \in 1..Len(fOut) :
             /\ Len(fOut[c]) = Len(fShaped[c])
             /\ \A k \in 1..Len(fOut[c]) :
                  (\/ k - 1 < ClickWindow(fRate)
                   \/ k - 1 >= Len(fOut[c]) - ClickWindow(fRate))
                  => fOut[c][k] = fShaped[c][k]

\* C10 witness: a channel with a nonempty edge region in which click repair
\* replaced an interior sample.
C10_Witness ==
    /\ fPc = "repaired"
    /\ ClickWindow(fRate) >= 1
    /\ \E c \in 1..Len(fOut) :
         /\ \E k \in 1..Len(fOut[c]) : fOut[c][k] # fShaped[c][k]
         /\ fOut[c][1] = fShaped[c][1]
         /\ Abs(fShaped[c][1]) > ClickThreshold

\* Channel c as the repair loop finds it on reaching 0-based index i: the
\* samples before i as click repair left them, the others as they came in.
ChannelAt(c, i) ==
    [k \in 1..Len(fShaped[c]) |->
        IF k - 1 < i THEN fOut[c][k] ELSE fShaped[c][k]]

\* 0-based index i is an interior index of a channel of n samples.
Interior(i, n, w) == w <= i /\ i < n - w

\* |x[i]| > 0.9 and |x[i]| > 3 * mean |x| of the w samples before i or of the
\* w samples after i (0-based i).  With w = 0 there is no mean to exceed.
IsClick(x, w, i) ==
    /\ w > 0
    /\ Abs(x[i + 1]) > ClickThreshold
    /\ \/ Abs(x[i + 1]) * w > 3 * SumAbs(x, i - w + 1, i)
       \/ Abs(x[i + 1]) * w > 3 * SumAbs(x, i + 2, i + w + 1)

\* sign(x[i]) * (prev_avg + next_avg) / 2
Interpolated(x, w, i) ==
    Signum(x[i + 1])
    * Trunc(SumAbs(x, i - w + 1, i) + SumAbs(x, i + 2, i + w + 1), 2 * w)

\* 0-based index i of channel x holds a spike of amplitude 1.0 (either sign)
\* whose w neighbours on each side all have amplitude 0.1.
IsolatedSpike(x, w, i) ==
    /\ w > 0
    /\ Abs(x[i + 1]) = 1000000
    /\ \A k \in (i - w + 1)..(i + w + 1) : k # i + 1 => x[k] = 100000

\* C12 (as stated, the means taken over the channel as it came in): an
\* interior sample is replaced by sign(x[i]) * (prev_avg + next_avg) / 2
\* exactly when |x[i]| > 0.9 and |x[i]| exceeds 3 times the mean absolute
\* value of the w input samples before it or after it; every other sample
\* is unchanged.
C12_ClickRepairOnInput ==
    fPc \in {"repaired", "panicked"} =>
        \A c \in 1..Len(fShaped) :
            LET x == fShaped[c]
                w == ClickWindow(fRate)
            IN  \A k \in 1..Len(x) :
                    IF Interior(k - 1, Len(x), w) /\ IsClick(x, w, k - 1)
                    THEN fOut[c][k] = Interpolated(x, w, k - 1)
                    ELSE fOut[c][k] = x[k]

\* C12 (amended): the same rule with the w samples before x[i] taken as click
\* repair has left them (the channel is repaired in place, left to right);
\* a sample with |x| <= 0.9 is never changed, and an isolated spike of
\* amplitude 1.0 among 0.1 neighbours becomes 0.1 with the spike's sign.
C12_ClickRepairInPlace ==
    fPc \in {"repaired", "panicked"} =>
        \A c \in 1..Len(fShaped) :
            LET w == ClickWindow(fRate)
            IN  \A k \in 1..Len(fShaped[c]) :
                    LET x == ChannelAt(c, k - 1)
                    IN  /\ IF /\ Interior(k - 1, Len(x), w)
                              /\ IsClick(x, w, k - 1)
                           THEN fOut[c][k] = Interpolated(x, w, k - 1)
                           ELSE fOut[c][k] = fShaped[c][k]
                        /\ Abs(fShaped[c][k]) <= ClickThreshold
                             => fOut[c][k] = fShaped[c][k]
                        /\ (/\ Interior(k - 1, Len(x), w)
                            /\ IsolatedSpike(fShaped[c], w, k - 1))
                             => fOut[c][k] = 100000 * Signum(fShaped[c][k])

\* C12 witness: an isolated spike of amplitude 1.0 among 0.1 neighbours was
\* repaired to 0.1.
C12_Witness ==
    /\ fPc = "repaired"
    /\ \E c \in 1..Len(fShaped) :
         \E k \in 1..Len(fShaped[c]) :
            /\ Interior(k - 1, Len(fShaped[c]), ClickWindow(fRate))
            /\ IsolatedSpike(fShaped[c], ClickWindow(fRate), k - 1)
            /\ fShaped[c][k] = 1000000
            /\ fOut[c][k] = 100000

\* C12 witness for the in-place case: two clicks in a row, the second one
\* interpolated from the first one's repaired value.
C12_WitnessAdjacent ==
    /\ fPc = "repaired"
    /\ \E c \in 1..Len(fShaped) :
         \E k \in 1..(Len(fShaped[c]) - 1) :
            /\ fOut[c][k] # fShaped[c][k]
            /\ fOut[c][k + 1] # fShaped[c][k + 1]
            /\ fOut[c][k + 1] #
                 Interpolated(fShaped[c], ClickWindow(fRate), k)

\* C13: post_process_stem applies to every channel the policy of its source
\* name: other = high-pass at 80 Hz then noise reduction, bass = low-pass at
\* 400 Hz, vocals = band-pass 300-3400 Hz, guitar = band-pass 80-8000 Hz,
\* piano = band-pass 80-15000 Hz; drums and any other name leave the buffer
\* as it is, sample for sample.
C13_PolicyByName ==
    fPc # "raw" =>
        /\ Len(fShaped) = Len(fIn)
        /\ fStem \notin {"other", "bass", "vocals", "guitar", "piano"}
             => fShaped = fIn
        /\ \A c \in 1..Len(fIn) :
             /\ fStem = "other" =>
                  fShaped[c] = apply_noise_reduction(
                                   apply_high_pass_filter(fIn[c], fRate, 80),
                                   fRate)
             /\ fStem = "bass" =>
                  fShaped[c] = apply_low_pass_filter(fIn[c], fRate, 400)
             /\ fStem = "vocals" =>
                  fShaped[c] = apply_low_pass_filter(
                                   apply_high_pass_filter(fIn[c], fRate, 300),
                                   fRate, 3400)
             /\ fStem = "guitar" =>
                  fShaped[c] = apply_low_pass_filter(
                                   apply_high_pass_filter(fIn[c], fRate, 80),
                                   fRate, 8000)
             /\ fStem = "piano" =>
                  fShaped[c] = apply_low_pass_filter(
                                   apply_high_pass_filter(fIn[c], fRate, 80),
                                   fRate, 15000)

\* C13 witness: an unrecognized name with a nonsilent buffer that every one
\* of the five filtering policies would have changed, returned as it went in.
C13_Witness ==
    /\ fPc # "raw"
    /\ fStem = "mix"
    /\ Len(fIn) > 0
    /\ fShaped = fIn
    /\ \A name \in {"other", "bass", "vocals", "guitar", "piano"} :
         post_process_stem(fIn, name, fRate) # fIn

\* C13 witness for the filtering policies: a vocals buffer whose result
\* differs from the input and from what the guitar and piano band-passes
\* give.
C13_WitnessVocals ==
    /\ fPc # "raw"
    /\ fStem = "vocals"
    /\ fShaped # fIn
    /\ fShaped # post_process_stem(fIn, "guitar", fRate)
    /\ fShaped # post_process_stem(fIn, "piano", fRate)

\* The band-pass cutoffs post_process_stem passes for a source name
\* (mod.rs 244, 254, 260).
BandPassNames == {"vocals", "guitar", "piano"}
LowCut(name) == IF name = "vocals" THEN 300 ELSE 80
HighCut(name) ==
    CASE name = "vocals" -> 3400
      [] name = "guitar" -> 8000
      [] OTHER -> 15000

\* s[n], and 0 before the first sample: the filters' state at the start of a
\* channel.
At0(s, n) == IF n < 1 THEN 0 ELSE s[n]

\* C14: the band-pass result y of a channel x is the low-pass at the high
\* cutoff of h, the high-pass of x at the low cutoff; both are one-pass
\* recurrences starting from zero state, so the first n output samples are
\* what the filter gives for the first n input samples alone, and a channel's
\* result is what it would be without the other channel in the buffer.
C14_BandPassOrderAndCausality ==
    (fPc # "raw" /\ fStem \in BandPassNames) =>
        \A c \in 1..Len(fIn) :
            LET x == fIn[c]
                y == fShaped[c]
                ah == AlphaHighPass(fRate, LowCut(fStem))
                al == AlphaLowPass(fRate, HighCut(fStem))
                h == apply_high_pass_filter(x, fRate, LowCut(fStem))
            IN  /\ Len(y) = Len(x)
                /\ Len(h) = Len(x)
                /\ \A n \in 1..Len(x) :
                     /\ h[n] = MulMicro(ah, At0(h, n - 1) + x[n] - At0(x, n - 1))
                     /\ y[n] = At0(y, n - 1)
                               + MulMicro(al, h[n] - At0(y, n - 1))
                     /\ SubSeq(y, 1, n) =
                          apply_band_pass_filter(SubSeq(x, 1, n), fRate,
                                                 LowCut(fStem), HighCut(fStem))
                /\ y = post_process_stem(<<x>>, fStem, fRate)[1]

\* C14 witness: a two-channel buffer with different channels went through a
\* band-pass, and the first channel's result is not what low-pass before
\* high-pass gives.
C14_Witness ==
    /\ fPc # "raw"
    /\ fStem \in BandPassNames
    /\ Len(fIn) = 2
    /\ fIn[1] # fIn[2]
    /\ fShaped[1] # fShaped[2]
    /\ fShaped[1] # apply_high_pass_filter(
                        apply_low_pass_filter(fIn[1], fRate, HighCut(fStem)),
                        fRate, LowCut(fStem))

(***************************************************************************)
(* The "other" stem in f32 arithmetic: demucs/mod.rs 225-232, 270-285 and  *)
(* 311-330                                                                 *)
(***************************************************************************)
\* Longest channel filtered in f32, in samples.
MaxNoiseLen == 6

\* 2^k, k >= 0
RECURSIVE Pow2(_)
Pow2(k) == IF k = 0 THEN 1 ELSE 2 * Pow2(k - 1)

\* An f32 is <<sign, mantissa, exponent>> and stands for
\* sign * mantissa * 2^exponent: sign is -1 or 1 and the mantissa has 24
\* bits, 2^23 <= mantissa < 2^24; zero is <<0, 0, 0>>.  Exponents stay far
\* from the ends of the f32 range here (no subnormal, no infinity).
F32Zero == <<0, 0, 0>>

\* The f32 nearest to sign * (magnitude + d) * 2^exponent, ties to the even
\* mantissa, where 0 <= d < 1 and d > 0 iff sticky.  sticky is only set for a
\* magnitude of 2^24 or more.
RECURSIVE F32Round(_, _, _, _)
F32Round(sign, magnitude, exponent, sticky) ==
    IF magnitude = 0 THEN F32Zero
    ELSE IF magnitude < 8388608
    THEN F32Round(sign, 2 * magnitude, exponent - 1, sticky)
    ELSE IF magnitude < 16777216 THEN <<sign, magnitude, exponent>>
    ELSE LET k == CHOOSE j \in 1..8 : magnitude \div Pow2(j) < 16777216
                                      /\ magnitude \div Pow2(j) >= 8388608
             q == magnitude \div Pow2(k)
             rem == magnitude % Pow2(k)
             half == Pow2(k - 1)
             up == rem > half \/ (rem = half /\ (sticky \/ q % 2 = 1))
             m == IF up THEN q + 1 ELSE q
         IN  IF m = 16777216 THEN <<sign, 8388608, exponent + k + 1>>
             ELSE <<sign, m, exponent + k>>

\* n as f32, for 0 <= n < 2^24 (exact)
F32FromInt(n) == F32Round(1, n, 0, FALSE)

\* `x as usize` for x >= 0: the integer part
F32ToUsize(x) ==
    IF x[1] <= 0 THEN 0
    ELSE IF x[3] >= 0 THEN x[2] * Pow2(x[3])
    ELSE IF x[3] < -24 THEN 0
    ELSE x[2] \div Pow2(-x[3])

F32Neg(x) == <<-x[1], x[2], x[3]>>

\* x * y in f32.  The 48-bit product of the mantissas is summed from their
\* 12-bit halves as hi * 2^24 + lo, and its top 26 bits are rounded.
F32Mul(x, y) ==
    IF x[1] = 0 \/ y[1] = 0 THEN F32Zero
    ELSE LET xh == x[2] \div 4096
             xl == x[2] % 4096
             yh == y[2] \div 4096
             yl == y[2] % 4096
             mid == xh * yl + xl * yh
             low == (mid % 4096) * 4096 + xl * yl
             hi == xh * yh + mid \div 4096 + low \div 16777216
             lo == low % 16777216
         IN  F32Round(x[1] * y[1], hi * 4 + lo \div 4194304,
                      x[3] + y[3] + 22, lo % 4194304 # 0)

\* x + y in f32, for |x| >= |y| > 0: y is shifted to the exponent of x with
\* three more bits kept and the bits shifted out remembered as sticky.
F32AddOrdered(x, y) ==
    LET d == x[3] - y[3]
    IN  IF d > 25 THEN x
        ELSE LET a == x[2] * 8
                 b == (y[2] * 8) \div Pow2(d)
                 sticky == (y[2] * 8) % Pow2(d) # 0
             IN  IF x[1] = y[1] THEN F32Round(x[1], a + b, x[3] - 3, sticky)
                 ELSE F32Round(x[1], a - b - (IF sticky THEN 1 ELSE 0),
                               x[3] - 3, sticky)

\* x + y in f32
F32Add(x, y) ==
    IF x[1] = 0 THEN y
    ELSE IF y[1] = 0 THEN x
    ELSE IF x[3] > y[3] \/ (x[3] = y[3] /\ x[2] >= y[2])
    THEN F32AddOrdered(x, y)
    ELSE F32AddOrdered(y, x)

\* x - y in f32
F32Sub(x, y) == F32Add(x, F32Neg(y))

\* Long division: the quotient floor(r * 2^steps / d) continued from q, and
\* the remainder, for r < d.
RECURSIVE DivBits(_, _, _, _)
DivBits(q, r, d, steps) ==
    IF steps = 0 THEN <<q, r>>
    ELSE IF 2 * r >= d THEN DivBits(2 * q + 1, 2 * r - d, d, steps - 1)
    ELSE DivBits(2 * q, 2 * r, d, steps - 1)

\* x / y in f32, y # 0: 26 bits of the quotient of the mantissas are rounded.
F32Div(x, y) ==
    IF x[1] = 0 THEN F32Zero
    ELSE LET qr == DivBits(x[2] \div y[2], x[2] % y[2], y[2], 25)
         IN  F32Round(x[1] * y[1], qr[1], x[3] - y[3] - 25, qr[2] # 0)

\* The f32 constants of the source.
F32One == <<1, 8388608, -23>>

F32Two == <<1, 8388608, -22>>

\* std::f32::consts::PI = 0x40490FDB
F32Pi == <<1, 13176795, -22>>

\* 0.7f32 = 0x3F333333
F32Seven10 == <<1, 11744051, -24>>

\* 0.3f32 = 0x3E99999A
F32Three10 == <<1, 10066330, -25>>

\* 0.01f32 = 0x3C23D70A
F32Hundredth == <<1, 10737418, -30>>

\* 0.1f32 = 0x3DCCCCCD
F32Tenth == <<1, 13421773, -27>>

\* mod.rs 271-273: alpha = rc / (rc + dt)
AlphaHighPassF32(sample_rate, cutoff) ==
    LET rc == F32Div(F32One, F32Mul(F32Mul(F32Two, F32Pi), F32FromInt(cutoff)))
        dt == F32Div(F32One, F32FromInt(sample_rate))
    IN  F32Div(rc, F32Add(rc, dt))

\* mod.rs 278-284: the loop from sample i (1-based) on.
RECURSIVE HighPassFromF32(_, _, _, _, _)
HighPassFromF32(samples, alpha, i, prev_input, prev_output) ==
    IF i > Len(samples) THEN <<>>
    ELSE LET input == samples[i]
             output == F32Mul(alpha, F32Sub(F32Add(prev_output, input),
                                            prev_input))
         IN  <<output>> \o HighPassFromF32(samples, alpha, i + 1, input, output)

\* mod.rs 270-285 in f32
apply_high_pass_filter_f32(samples, sample_rate, cutoff) ==
    HighPassFromF32(samples, AlphaHighPassF32(sample_rate, cutoff), 1,
                    F32Zero, F32Zero)

\* mod.rs 312: (sample_rate as f32 * 0.01) as usize
NoiseWindowF32(sample_rate) ==
    F32ToUsize(F32Mul(F32FromInt(sample_rate), F32Hundredth))

\* mod.rs 319-321: samples[a..=b].iter().sum() (1-based), added up in order
\* from 0.0.
RECURSIVE F32Sum(_, _, _)
F32Sum(samples, a, b) ==
    IF a > b THEN F32Zero
    ELSE F32Add(F32Sum(samples, a, b - 1), samples[b])

\* mod.rs 328: original * 0.7 + smooth * 0.3
Blend(original, smooth) ==
    F32Add(F32Mul(original, F32Seven10), F32Mul(smooth, F32Three10))

\* Mutant: no length guard, and the moving average is taken at every index
\* with the window cut at the ends of the channel.
apply_noise_reduction_everywhere_f32(samples, sample_rate) ==
    LET window_size == NoiseWindowF32(sample_rate)
        smoothed ==
            [k \in 1..Len(samples) |->
               F32Div(F32Sum(samples, Max(k - window_size, 1),
                             Min(k + window_size - 1, Len(samples))),
                      F32FromInt(Max(window_size, 1) * 2))]
    IN  [k \in 1..Len(samples) |-> Blend(samples[k], smoothed[k])]

\* mod.rs 311-330 in f32: the window is samples[i-w .. i+w) (0-based i), the
\* blend is applied to every sample, smoothed or not.
apply_noise_reduction_f32(samples, sample_rate) ==
    LET window_size == NoiseWindowF32(sample_rate)
    IN  IF window_size < 2 \/ Len(samples) < window_size * 2 THEN samples
        ELSE LET smoothed ==
                   [k \in 1..Len(samples) |->
                      IF k - 1 >= window_size /\ k - 1 < Len(samples) - window_size
                      THEN F32Div(F32Sum(samples, k - window_size,
                                         k + window_size - 1),
                                  F32FromInt(window_size * 2))
                      ELSE samples[k]]
             IN  [k \in 1..Len(samples) |-> Blend(samples[k], smoothed[k])]

\* Sample values of the model output: -1.0, 0.0, 0.1 and 1.0.
F32Levels == {F32Neg(F32One), F32Zero, F32Tenth, F32One}

\* Sample rates with a half-window of 1 (noise reduction skipped), 2 and 3.
NoiseRates == {100, 200, 300}

\* All channels of at most n samples.
RECURSIVE F32ChannelsUpTo(_)
F32ChannelsUpTo(n) ==
    IF n = 0 THEN {<<>>}
    ELSE LET shorter == F32ChannelsUpTo(n - 1)
         IN  shorter \cup {Append(s, x) : s \in {t \in shorter : Len(t) = n - 1},
                                          x \in F32Levels}

InitNoise ==
    /\ SplitIdle
    /\ AnalysisIdle
    /\ ProjectIdle
    /\ FilterIdle
    /\ SeparateIdle
    /\ PeaksIdle
    /\ TempoIdle
    /\ nzPc = "raw"
    /\ nzRate \in NoiseRates
    /\ nzIn \in F32ChannelsUpTo(MaxNoiseLen)
    /\ nzHigh = <<>>
    /\ nzOut = <<>>

\* mod.rs 229: apply_high_pass_filter(channel, sample_rate, 80.0)
HighPassOther ==
    /\ nzPc = "raw"
    /\ nzHigh' = apply_high_pass_filter_f32(nzIn, nzRate, 80)
    /\ nzPc' = "filtered"
    /\ UNCHANGED <<nzRate, nzIn, nzOut>>
    /\ UNCHANGED nonNoiseVars

\* mod.rs 230: apply_noise_reduction(channel, sample_rate)
NoiseReductionOther ==
    /\ nzPc = "filtered"
    /\ nzOut' = apply_noise_reduction_f32(nzHigh, nzRate)
    /\ nzPc' = "reduced"
    /\ UNCHANGED <<nzRate, nzIn, nzHigh>>
    /\ UNCHANGED nonNoiseVars

NextNoise ==
    \/ HighPassOther
    \/ NoiseReductionOther

SpecNoise == InitNoise /\ [][NextNoise]_vars

(***************************************************************************)
(* Claims about noise reduction                                            *)
(***************************************************************************)
\* 0-based index k - 1 is within w of either end of a channel of n samples.
NearEnd(k, n, w) == k - 1 < w \/ k - 1 >= n - w

\* x and y are neighbours among the f32 values: same sign, mantissas one
\* apart (across a power of two: the largest mantissa of one exponent and
\* the smallest of the next).
F32Neighbours(x, y) ==
    /\ x[1] = y[1]
    /\ x[1] # 0
    /\ \/ x[3] = y[3] /\ Abs(x[2] - y[2]) = 1
       \/ x[3] = y[3] + 1 /\ x[2] = 8388608 /\ y[2] = 16777215
       \/ y[3] = x[3] + 1 /\ y[2] = 8388608 /\ x[2] = 16777215

\* C11 (as stated): noise reduction leaves a channel shorter than 2w exactly
\* unchanged, and when it runs every sample within w of either end keeps
\* exactly its original value.
C11_NoiseReductionEdgesExact ==
    nzPc = "reduced" =>
        LET w == NoiseWindowF32(nzRate)
        IN  /\ Len(nzOut) = Len(nzHigh)
            /\ Len(nzHigh) < 2 * w => nzOut = nzHigh
            /\ \A k \in 1..Len(nzHigh) :
                 NearEnd(k, Len(nzHigh), w) => nzOut[k] = nzHigh[k]

\* C11 (amended): noise reduction leaves a channel shorter than 2w exactly
\* unchanged; when it runs, a sample within w of either end comes back as
\* its original f32 value or as one of the two f32 values next to it, and a
\* sample of 0.0 as 0.0.
C11_NoiseReductionEdgesWithinOneUlp ==
    nzPc = "reduced" =>
        LET w == NoiseWindowF32(nzRate)
        IN  /\ Len(nzOut) = Len(nzHigh)
            /\ Len(nzHigh) < 2 * w => nzOut = nzHigh
            /\ \A k \in 1..Len(nzHigh) :
                 NearEnd(k, Len(nzHigh), w) =>
                    \/ nzOut[k] = nzHigh[k]
                    \/ F32Neighbours(nzOut[k], nzHigh[k])

\* C11 witness: noise reduction ran on a channel of at least 2w samples,
\* changed an interior sample by more than a rounding step, returned one end
\* sample as it was and another end sample as the f32 value next to it.
C11_Witness ==
    /\ nzPc = "reduced"
    /\ LET w == NoiseWindowF32(nzRate)
           n == Len(nzHigh)
       IN  /\ w >= 2
           /\ n >= 2 * w
           /\ \E k \in 1..n :
                /\ ~NearEnd(k, n, w)
                /\ nzOut[k] # nzHigh[k]
                /\ ~F32Neighbours(nzOut[k], nzHigh[k])
           /\ \E k \in 1..n :
                /\ NearEnd(k, n, w)
                /\ nzHigh[k] # F32Zero
                /\ nzOut[k] = nzHigh[k]
           /\ \E k \in 1..n :
                /\ NearEnd(k, n, w)
                /\ F32Neighbours(nzOut[k], nzHigh[k])

\* C11 witness for the skipped case: a nonempty channel shorter than 2w comes
\* back from noise reduction as it went in, with w >= 2.
C11_WitnessSkipped ==
    /\ nzPc = "reduced"
    /\ NoiseWindowF32(nzRate) >= 2
    /\ Len(nzHigh) > 0
    /\ Len(nzHigh) < 2 * NoiseWindowF32(nzRate)
    /\ nzOut = nzHigh
    /\ nzHigh # nzIn

\* C11 witness of the code's own case: 200 Hz, the channel -1.0, -1.0, 0.0,
\* -1.0; the high-pass filter leaves -14105047 * 2^-26 as the last sample
\* and noise reduction returns -14105048 * 2^-26.
C11_WitnessLastSample ==
    /\ nzPc = "reduced"
    /\ nzRate = 200
    /\ nzIn = <<F32Neg(F32One), F32Neg(F32One), F32Zero, F32Neg(F32One)>>
    /\ nzHigh[4] = <<-1, 14105047, -26>>
    /\ nzOut[4] = <<-1, 14105048, -26>>

(***************************************************************************)
(* split_track and split_vocal_instrumental: demucs/mod.rs 39-214          *)
(*                                                                         *)
(* Samples and the normalized tensor are fixed-point thousandths.  The     *)
(* model configuration (source names, sample rate, 2 channels) and         *)
(* Demucs::apply belong to demucs/model.rs; decode_file, resample and      *)
(* encode_pcm_to_wav to demucs/audio.rs.                                   *)
(***************************************************************************)
\* Longest resampled track, in frames.
MaxSplitLen == 3

\* model.config.channels; the reshape to [1, 2, length] fixes it (mod.rs 65).
ModelChannels == 2

\* model.config.sample_rate: click windows of 1 and 2 samples.
SplitRates == {1000, 2000}

\* Source lists: the two shipped models, and a list without "vocals".
SourceLists == Models \cup {<<"drums", "bass">>}

\* Channels of a track: sequences of at most MaxSplitLen samples, the
\* filter bank's sample values in thousandths.
SplitChannels ==
    {[k \in 1..Len(s) |-> s[k] \div 1000] : s \in ChannelsUpTo(MaxSplitLen)}

\* Tracks returned by resample: mono, or stereo with the second channel the
\* first one reversed.
SplitTracks ==
    {[samples |-> <<s>>, sample_rate |-> r, nb_channels |-> 1,
      length |-> Len(s)] : s \in SplitChannels, r \in SplitRates}
    \cup
    {[samples |-> <<s, Reverse(s)>>, sample_rate |-> r, nb_channels |-> 2,
      length |-> Len(s)] : s \in SplitChannels, r \in SplitRates}

\* mod.rs 46: track.samples.into_iter().flatten()
RECURSIVE Flatten(_)
Flatten(samples) ==
    IF samples = <<>> THEN <<>> ELSE Head(samples) \o Flatten(Tail(samples))

\* mod.rs 55: input_tensor.mean(Kind::Float), one value for the whole tensor.
\* The mean of an empty tensor is 0/0 = NaN, which try_into hands on as
\* Ok(NaN); no element exists to be offset by it.  (The mean of a nonempty
\* track of SplitTracks is 0 or at least 10 thousandths in magnitude, so it
\* is never mistaken for NaN.)
TensorMean(flat) ==
    IF flat = <<>> THEN NaN
    ELSE Trunc(SumRange(flat, 1, Len(flat)), Len(flat))

\* Sum of squared deviations from m.
RECURSIVE SumSq(_, _, _)
SumSq(flat, m, i) ==
    IF i > Len(flat) THEN 0
    ELSE (flat[i] - m) * (flat[i] - m) + SumSq(flat, m, i + 1)

\* Integer square root.
Isqrt(v) == CHOOSE r \in 0..2000 : r * r <= v /\ (r + 1) * (r + 1) > v

\* mod.rs 56: input_tensor.std(true), the unbiased standard deviation of the
\* whole tensor; NaN for fewer than two elements.
TensorStd(flat) ==
    IF Len(flat) < 2 THEN NaN
    ELSE Isqrt(SumSq(flat, TensorMean(flat), 1) \div (Len(flat) - 1))

\* 1e-8 as a fraction of a thousandth.
StdFloor == <<1, 100000>>

\* Mutant: no floor, the standard deviation is used as it is.
StdUnsafe(std) == <<std, 1>>

\* mod.rs 59: if std_val < 1e-8 { 1e-8 } else { std_val }.  A standard
\* deviation below one fixed-point unit is below the floor; NaN compares
\* false and is kept.
StdSafe(std) ==
    IF std = NaN THEN <<NaN, 1>>
    ELSE IF std < 1 THEN StdFloor ELSE <<std, 1>>

\* mod.rs 61-62: (x - mean) / std_safe.  A quotient by the floor 1e-8 is
\* 10^8 times the offset and exceeds the integers at hand: a tensor
\* normalized with the floor is kept in units of 10^8 thousandths, every
\* other tensor in thousandths.
Normalize(x, mean, stdsafe) ==
    IF stdsafe = StdFloor THEN x - mean
    ELSE Trunc((x - mean) * 1000 * stdsafe[2], stdsafe[1])

\* Mutant: the mean is added back before the scaling.
DenormalizeMeanFirst(y, mean, stdsafe) ==
    IF stdsafe = StdFloor THEN y + Trunc(mean, 100000000)
    ELSE Trunc((y + mean) * stdsafe[1], 1000 * stdsafe[2])

\* mod.rs 70-71: y * std_safe + mean, y in the units Normalize left it in.
Denormalize(y, mean, stdsafe) ==
    IF stdsafe = StdFloor THEN y + mean
    ELSE Trunc(y * stdsafe[1], 1000 * stdsafe[2]) + mean

\* A buffer with f applied to every sample.
NormalizeBuffer(buf, mean, stdsafe) ==
    [c \in 1..Len(buf) |->
        [k \in 1..Len(buf[c]) |-> Normalize(buf[c][k], mean, stdsafe)]]

DenormalizeBuffer(buf, mean, stdsafe) ==
    [c \in 1..Len(buf) |->
        [k \in 1..Len(buf[c]) |-> Denormalize(buf[c][k], mean, stdsafe)]]

\* Demucs::apply: per-source gains in tenths applied to the input, one gain
\* vector per behaviour of the network: every source a copy of the input,
\* source i at i tenths of it, every source silent.
ModelGains(n) ==
    {[i \in 1..n |-> 10], [i \in 1..n |-> i], [i \in 1..n |-> 0]}

\* Demucs::apply: an output of shape [sources, ModelChannels, length].
ApplyModel(tensor, gains) ==
    [i \in 1..Len(gains) |->
        [c \in 1..ModelChannels |->
            [k \in 1..Len(tensor[c]) |-> Trunc(tensor[c][k] * gains[i], 10)]]]

InitSeparate ==
    /\ SplitIdle
    /\ AnalysisIdle
    /\ ProjectIdle
    /\ FilterIdle
    /\ PeaksIdle
    /\ TempoIdle
    /\ NoiseIdle
    /\ sPc = "resampled"
    /\ sKind \in {"split_track", "split_vocal_instrumental"}
    /\ sSources \in SourceLists
    /\ sTrack \in SplitTracks
    /\ sRate = sTrack.sample_rate
    /\ sConv = NoConv
    /\ sMean = 0
    /\ sStd = <<0, 1>>
    /\ sTensor = <<>>
    /\ sRaw = <<>>
    /\ sOutput = <<>>
    /\ sMix = <<>>
    /\ sNext = 0
    /\ sFiles = <<>>
    /\ sResult = NoResult

\* mod.rs 44-65 / 124-142: build the tensor; the conversion to a Tensor may
\* fail and the error leaves the function through `?` (51 / 131).
\* Otherwise take the mean and the standard deviation of the whole buffer;
\* each of the two conversions to f32 either returns the value or fails, and
\* then unwrap_or puts 0.0 for the mean and 1.0 for the standard deviation
\* (55-56 / 134-135).  Normalize the tensor with the mean and the floored
\* standard deviation and reshape it to [1, 2, length].  The reshape panics
\* unless the tensor has 2 * length elements.
NormalizeTrack ==
    /\ sPc = "resampled"
    /\ \/ /\ sPc' = "failed"
          /\ sResult' = ErrResult("torch")
          /\ UNCHANGED <<sConv, sMean, sStd, sTensor>>
       \/ \E mean_ok, std_ok \in BOOLEAN :
            LET flat == Flatten(sTrack.samples)
                mean == IF mean_ok THEN TensorMean(flat) ELSE 0
                stdsafe == StdSafe(IF std_ok THEN TensorStd(flat) ELSE 1000)
            IN  /\ sConv' = [mean |-> mean_ok, std |-> std_ok]
                /\ sMean' = mean
                /\ sStd' = stdsafe
                /\ IF Len(flat) = ModelChannels * sTrack.length
                   THEN /\ sTensor' =
                             IF sTrack.nb_channels = ModelChannels
                             THEN NormalizeBuffer(sTrack.samples, mean, stdsafe)
                             ELSE [c \in 1..ModelChannels |-> <<>>]
                        /\ sPc' = "normalized"
                        /\ UNCHANGED sResult
                   ELSE /\ sTensor' = <<>>
                        /\ sPc' = "panicked"
                        /\ sResult' = PanicResult
    /\ UNCHANGED <<sKind, sSources, sRate, sTrack, sRaw, sOutput, sMix, sNext,
                   sFiles>>
    /\ UNCHANGED nonSeparateVars

\* mod.rs 67 / 144: model.apply(input)
Infer ==
    /\ sPc = "normalized"
    /\ \/ \E g \in ModelGains(Len(sSources)) :
            /\ sRaw' = ApplyModel(sTensor, g)
            /\ sPc' = "inferred"
            /\ UNCHANGED sResult
       \/ /\ sPc' = "panicked"
          /\ sResult' = PanicResult
          /\ UNCHANGED sRaw
    /\ UNCHANGED <<sKind, sSources, sRate, sTrack, sConv, sMean, sStd, sTensor,
                   sOutput, sMix, sNext, sFiles>>
    /\ UNCHANGED nonSeparateVars

\* mod.rs 70-71 / 147-148: output *= std_safe_val; output += mean_val
DenormalizeOutput ==
    /\ sPc = "inferred"
    /\ sOutput' = [i \in 1..Len(sRaw) |->
                      DenormalizeBuffer(sRaw[i], sMean, sStd)]
    /\ sNext' = 1
    /\ sPc' = "denormalized"
    /\ UNCHANGED <<sKind, sSources, sRate, sTrack, sConv, sMean, sStd, sTensor, sRaw,
                   sMix, sFiles, sResult>>
    /\ UNCHANGED nonSeparateVars

\* mod.rs 90-97 / 185-190: post_process_stem, then remove_clicks_pops on its
\* result.  The buffer comes in thousandths and leaves in thousandths; the
\* filters work on it in millionths.
ProcessStem(buffer, stem_type, sample_rate) ==
    LET fine == [c \in 1..Len(buffer) |->
                    [k \in 1..Len(buffer[c]) |-> 1000 * buffer[c][k]]]
        r == remove_clicks_pops(post_process_stem(fine, stem_type, sample_rate),
                                sample_rate)
    IN  [panicked |-> r.panicked,
         samples |-> [c \in 1..Len(r.samples) |->
                         [k \in 1..Len(r.samples[c]) |->
                             Trunc(r.samples[c][k], 1000)]]]

\* mod.rs 106-108: <source>.wav
StemFile(source) == <<source, ".wav">>

FileNames(files) == [i \in 1..Len(files) |-> files[i].name]

\* mod.rs 77-113, one turn of the iterator: copy source sNext out of the
\* output, post-process it, repair clicks, encode it to <source>.wav.  The
\* first encoding error ends the collect; after the last source the paths
\* are returned in source order.
WriteStem ==
    /\ sPc = "denormalized"
    /\ sKind = "split_track"
    /\ LET source == sSources[sNext]
           r == ProcessStem(sOutput[sNext], source, sRate)
           file == [name |-> StemFile(source), samples |-> r.samples]
       IN  IF r.panicked
           THEN /\ sPc' = "panicked"
                /\ sResult' = PanicResult
                /\ UNCHANGED <<sNext, sFiles>>
           ELSE \/ /\ sFiles' = Append(sFiles, file)
                   /\ IF sNext = Len(sSources)
                      THEN /\ sPc' = "done"
                           /\ sResult' = OkResult(FileNames(sFiles'))
                           /\ UNCHANGED sNext
                      ELSE /\ sNext' = sNext + 1
                           /\ UNCHANGED <<sPc, sResult>>
                \/ /\ sPc' = "failed"
                   /\ sResult' = ErrResult("encode")
                   /\ UNCHANGED <<sNext, sFiles>>
    /\ UNCHANGED <<sKind, sSources, sRate, sTrack, sConv, sMean, sStd, sTensor, sRaw,
                   sOutput, sMix>>
    /\ UNCHANGED nonSeparateVars

\* 1-based position of the first "vocals" in the source list, 0 if there is none.
RECURSIVE Position(_, _, _)
Position(srcs, name, i) ==
    IF i > Len(srcs) THEN 0
    ELSE IF srcs[i] = name THEN i
    ELSE Position(srcs, name, i + 1)

\* mod.rs 151-155: the index of "vocals", the first source if there is none
\* (1-based here).
VocalIndex(srcs) ==
    IF Position(srcs, "vocals", 1) = 0 THEN 1
    ELSE Position(srcs, "vocals", 1)

\* mod.rs 165: vec![vec![0.0; track.length]; model.config.channels]
Silence(length) == [c \in 1..ModelChannels |-> [k \in 1..length |-> 0]]

\* mod.rs 176-180: instrumental_buffer[ch][j] += stem_buffer[ch][j]
AddBuffer(a, b) ==
    [c \in 1..Len(a) |-> [k \in 1..Len(a[c]) |-> a[c][k] + b[c][k]]]

\* mod.rs 167-182: the sum of the buffers of every source not named
\* "vocals", from source i on.
RECURSIVE Instrumental(_, _, _, _)
Instrumental(output, srcs, i, acc) ==
    IF i > Len(srcs) THEN acc
    ELSE Instrumental(output, srcs, i + 1,
                      IF srcs[i] # "vocals"
                      THEN AddBuffer(acc, output[i]) ELSE acc)

\* mod.rs 150-190: take the vocal buffer, sum the instrumental buffer,
\* post-process the first as "vocals" and the second as "other".
MixDown ==
    /\ sPc = "denormalized"
    /\ sKind = "split_vocal_instrumental"
    /\ LET vocal == ProcessStem(sOutput[VocalIndex(sSources)], "vocals", sRate)
           instrumental ==
               ProcessStem(Instrumental(sOutput, sSources, 1,
                                        Silence(sTrack.length)),
                           "other", sRate)
       IN  IF vocal.panicked \/ instrumental.panicked
           THEN /\ sPc' = "panicked"
                /\ sResult' = PanicResult
                /\ UNCHANGED sMix
           ELSE /\ sMix' = <<vocal.samples, instrumental.samples>>
                /\ sPc' = "mixed"
                /\ UNCHANGED sResult
    /\ UNCHANGED <<sKind, sSources, sRate, sTrack, sConv, sMean, sStd, sTensor, sRaw,
                   sOutput, sNext, sFiles>>
    /\ UNCHANGED nonSeparateVars

\* mod.rs 193-200: encode vocal.wav
EncodeVocal ==
    /\ sPc = "mixed"
    /\ sFiles = <<>>
    /\ \/ /\ sFiles' = <<[name |-> StemFile("vocal"), samples |-> sMix[1]]>>
          /\ UNCHANGED <<sPc, sResult>>
       \/ /\ sPc' = "failed"
          /\ sResult' = ErrResult("encode")
          /\ UNCHANGED sFiles
    /\ UNCHANGED <<sKind, sSources, sRate, sTrack, sConv, sMean, sStd, sTensor, sRaw,
                   sOutput, sMix, sNext>>
    /\ UNCHANGED nonSeparateVars

\* mod.rs 203-213: encode instrumental.wav and return both paths
EncodeInstrumental ==
    /\ sPc = "mixed"
    /\ Len(sFiles) = 1
    /\ \/ /\ sFiles' = Append(sFiles, [name |-> StemFile("instrumental"),
                                       samples |-> sMix[2]])
          /\ sPc' = "done"
          /\ sResult' = OkResult(FileNames(sFiles'))
       \/ /\ sPc' = "failed"
          /\ sResult' = ErrResult("encode")
          /\ UNCHANGED sFiles
    /\ UNCHANGED <<sKind, sSources, sRate, sTrack, sConv, sMean, sStd, sTensor, sRaw,
                   sOutput, sMix, sNext>>
    /\ UNCHANGED nonSeparateVars

NextSeparate ==
    \/ NormalizeTrack
    \/ Infer
    \/ DenormalizeOutput
    \/ WriteStem
    \/ MixDown
    \/ EncodeVocal
    \/ EncodeInstrumental

SpecSeparate == InitSeparate /\ [][NextSeparate]_vars

(***************************************************************************)
(* Claims about the separation pipeline                                    *)
(***************************************************************************)
\* The track was normalized and reshaped (the reshape did not panic).
WasNormalized == sPc \notin {"off", "resampled"} /\ sTensor # <<>>

\* The model output was denormalized.
WasDenormalized == WasNormalized /\ sOutput # <<>>

\* C15: normalization uses one mean and one standard deviation taken over
\* all samples of all channels, floored at 1e-8; the model output is scaled
\* back with the same two values; and a source the model returns as the
\* normalized input itself comes back as the input track, up to the rounding
\* of the two conversions (two fixed-point units here; a tensor normalized
\* with the floor is read in units of 10^8 thousandths).  Where tch does not
\* hand the mean or the standard deviation over as an f32, the value used in
\* both directions is 0.0 or 1.0, and the round trip holds all the same.
C15_NormalizationRoundTrip ==
    /\ WasNormalized =>
         LET flat == Flatten(sTrack.samples)
             n == Len(flat)
             total == SumRange(flat, 1, n)
         IN  /\ (n > 0 /\ sConv.mean) => /\ Abs(n * sMean - total) < n
                                          /\ sMean * total >= 0
             /\ ~sConv.mean => sMean = 0
             /\ ~sConv.std => sStd = <<1000, 1>>
             /\ (n > 1 /\ sConv.std) =>
                  LET var == SumSq(flat, Trunc(total, n), 1) \div (n - 1)
                  IN  IF var = 0 THEN sStd = StdFloor
                      ELSE /\ sStd[2] = 1
                           /\ sStd[1] * sStd[1] <= var
                           /\ (sStd[1] + 1) * (sStd[1] + 1) > var
             /\ \A c \in 1..Len(sTrack.samples) :
                  \A k \in 1..sTrack.length :
                     sTensor[c][k] =
                        IF sStd = StdFloor
                        THEN sTrack.samples[c][k] - sMean
                        ELSE Trunc((sTrack.samples[c][k] - sMean) * 1000,
                                   sStd[1])
    /\ WasDenormalized =>
         \A i \in 1..Len(sOutput) :
            \A c \in 1..ModelChannels :
               \A k \in 1..sTrack.length :
                  /\ sOutput[i][c][k] =
                       IF sStd = StdFloor THEN sRaw[i][c][k] + sMean
                       ELSE Trunc(sRaw[i][c][k] * sStd[1], 1000) + sMean
                  /\ sRaw[i] = sTensor =>
                       Abs(sOutput[i][c][k] - sTrack.samples[c][k]) <= 2

\* C15 witness: a track with a nonzero mean and a standard deviation above
\* the floor, a source returned as the normalized input, and a denormalized
\* sample one unit away from the input sample.
C15_Witness ==
    /\ WasDenormalized
    /\ sConv = [mean |-> TRUE, std |-> TRUE]
    /\ sTrack.length > 1
    /\ sMean # 0
    /\ sStd[2] = 1
    /\ sStd[1] > 1
    /\ \E i \in 1..Len(sOutput) :
         /\ sRaw[i] = sTensor
         /\ \E c \in 1..ModelChannels : \E k \in 1..sTrack.length :
              Abs(sOutput[i][c][k] - sTrack.samples[c][k]) = 1

\* C15 witness for the floor: a constant nonsilent track is normalized with
\* 1e-8 and comes back as its mean.
C15_WitnessFloor ==
    /\ WasDenormalized
    /\ sConv = [mean |-> TRUE, std |-> TRUE]
    /\ sTrack.length > 0
    /\ sStd = StdFloor
    /\ sMean # 0
    /\ \A i \in 1..Len(sOutput) : sOutput[i] = sTrack.samples

\* C15 witness for the fallbacks: neither scalar came back from tch, the
\* nonsilent track went to the model as it was and a source returned
\* unchanged is the track again.
C15_WitnessFallback ==
    /\ WasDenormalized
    /\ sConv = NoConv
    /\ sMean = 0
    /\ sStd = <<1000, 1>>
    /\ sTensor = sTrack.samples
    /\ ~(\A c \in 1..Len(sTensor) : \A k \in 1..Len(sTensor[c]) : sTensor[c][k] = 0)
    /\ \E i \in 1..Len(sOutput) : sRaw[i] = sTensor /\ sOutput[i] = sTrack.samples

\* The sum of the buffers of every source but the one at index v.
RECURSIVE SumOfOthers(_, _, _, _)
SumOfOthers(output, v, i, acc) ==
    IF i > Len(output) THEN acc
    ELSE SumOfOthers(output, v, i + 1,
                     IF i # v THEN AddBuffer(acc, output[i]) ELSE acc)

\* C16: a successful full split returns one path per configured source, in
\* source order, each <source>.wav; a successful two-way split returns
\* vocal.wav and instrumental.wav, the vocal file made from one source buffer
\* and the instrumental file from the sum of all the other source buffers, so
\* that no source buffer goes into both files.
C16_StemFilesAndInstrumental ==
    /\ (sPc = "done" /\ sKind = "split_track") =>
         /\ sResult.status = "ok"
         /\ Len(sResult.stems) = Len(sSources)
         /\ \A i \in 1..Len(sSources) :
              /\ sResult.stems[i] = <<sSources[i], ".wav">>
              /\ sFiles[i].name = sResult.stems[i]
    /\ (sPc = "done" /\ sKind = "split_vocal_instrumental") =>
         /\ sResult.status = "ok"
         /\ sResult.stems = <<<<"vocal", ".wav">>, <<"instrumental", ".wav">>>>
         /\ FileNames(sFiles) = sResult.stems
         /\ \E v \in 1..Len(sSources) :
              /\ sFiles[1].samples =
                   ProcessStem(sOutput[v], "vocals", sRate).samples
              /\ sFiles[2].samples =
                   ProcessStem(SumOfOthers(sOutput, v, 1,
                                           Silence(sTrack.length)),
                               "other", sRate).samples

\* C16 on the configurations that name a "vocals" source: the claim as
\* stated, with the vocal file made from the "vocals" buffer.
C16_HoldsWithVocalsSource ==
    (\E i \in 1..Len(sSources) : sSources[i] = "vocals")
        => C16_StemFilesAndInstrumental

\* A two-way split of a source list without "vocals" that wrote the first
\* source's nonsilent buffer to vocal.wav.
C16_FallbackReached ==
    /\ sPc = "done"
    /\ sKind = "split_vocal_instrumental"
    /\ sSources = <<"drums", "bass">>
    /\ \E c \in 1..ModelChannels : \E k \in 1..sTrack.length :
         sOutput[1][c][k] # 0

\* Every sample of every channel of the buffer is 0.
IsSilent(buffer) ==
    \A c \in 1..Len(buffer) : \A k \in 1..Len(buffer[c]) : buffer[c][k] = 0

\* The buffer has the channel count and the length of the resampled track.
HasTrackShape(buffer) ==
    /\ Len(buffer) = sTrack.nb_channels
    /\ \A c \in 1..Len(buffer) : Len(buffer[c]) = sTrack.length

\* The source buffer file i was made from, before post-processing.
SourceBuffer(i) ==
    IF sKind = "split_track" THEN sOutput[i]
    ELSE IF i = 1 THEN sOutput[VocalIndex(sSources)]
    ELSE Instrumental(sOutput, sSources, 1, Silence(sTrack.length))

\* C17: every stem buffer a separation hands to the encoder has as many
\* channels as the resampled input track and every channel has the track's
\* length; post-processing and click repair return the shape they were
\* given, for each source name, and turn a silent buffer into a silent one.
C17_StemsKeepTrackShape ==
    /\ \A i \in 1..Len(sFiles) :
         /\ HasTrackShape(sFiles[i].samples)
         /\ Len(sFiles[i].samples) = Len(SourceBuffer(i))
         /\ \A c \in 1..Len(sFiles[i].samples) :
              Len(sFiles[i].samples[c]) = Len(SourceBuffer(i)[c])
         /\ IsSilent(SourceBuffer(i)) => IsSilent(sFiles[i].samples)
    /\ \A i \in 1..Len(sMix) : HasTrackShape(sMix[i])

\* C17 witness: a full split with the six known source names finished on a
\* nonsilent track of at least two frames, and the filters changed samples.
C17_Witness ==
    /\ sPc = "done"
    /\ sKind = "split_track"
    /\ sSources = Htdemucs6s
    /\ Len(sFiles) = 6
    /\ sTrack.length >= 2
    /\ ~IsSilent(sTrack.samples)
    /\ \A i \in 1..6 :
         /\ ~IsSilent(sOutput[i])
         /\ sSources[i] # "drums" => sFiles[i].samples # sOutput[i]

\* C17 witness for silence: a silent track of at least two frames went
\* through a full six-source split and every stem is silent.
C17_WitnessSilent ==
    /\ sPc = "done"
    /\ sSources = Htdemucs6s
    /\ Len(sFiles) = 6
    /\ sTrack.length >= 2
    /\ IsSilent(sTrack.samples)
    /\ \A i \in 1..6 : IsSilent(sFiles[i].samples)

(***************************************************************************)
(* Peak picking on its own: demucs/analysis.rs 89 and 142-174              *)
(***************************************************************************)
\* Longest smoothed envelope.
MaxSignalLen == 8

\* Smoothed values: silence, a value that is 0.3 of the largest, the largest.
PeakLevels == {0, 3, 10}

\* Smoothing windows of the estimator: window_size / 4 is 0, 0, 1 and 2.
PeakWindows == {1, 3, 4, 8}

\* Signals of at most n values.
RECURSIVE SignalsUpTo(_)
SignalsUpTo(n) ==
    IF n = 0 THEN {<<>>}
    ELSE LET shorter == SignalsUpTo(n - 1)
         IN  shorter \cup {Append(q, x) : q \in {t \in shorter : Len(t) = n - 1},
                                          x \in PeakLevels}

InitPeaks ==
    /\ SplitIdle
    /\ AnalysisIdle
    /\ ProjectIdle
    /\ FilterIdle
    /\ SeparateIdle
    /\ TempoIdle
    /\ NoiseIdle
    /\ pkPc = "smoothed"
    /\ pkSignal \in SignalsUpTo(MaxSignalLen)
    /\ pkW \in PeakWindows
    /\ pkPeaks = <<>>

\* analysis.rs 89: find_peaks(&smoothed, window_size / 4)
FindPeaks ==
    /\ pkPc = "smoothed"
    /\ pkPeaks' = find_peaks(pkSignal, pkW \div 4)
    /\ pkPc' = "found"
    /\ UNCHANGED <<pkSignal, pkW>>
    /\ UNCHANGED nonPeakVars

NextPeaks == FindPeaks

SpecPeaks == InitPeaks /\ [][NextPeaks]_vars

(***************************************************************************)
(* Claims about peak picking                                               *)
(***************************************************************************)
\* The largest value of the signal, 0 if it has none above 0.
GlobalMax(signal) ==
    LET vals == {signal[j] : j \in 1..Len(signal)} \cup {0}
    IN  CHOOSE v \in vals : \A u \in vals : u <= v

\* The 0-based indices i with m <= i < len - m whose value exceeds 0.3 times
\* the global maximum and strictly exceeds the m values before and the m
\* values after it.
PeakSet(signal, m) ==
    {i \in 0..(Len(signal) - 1) :
        /\ m <= i
        /\ i < Len(signal) - m
        /\ 10 * signal[i + 1] > 3 * GlobalMax(signal)
        /\ \A j \in 1..m : /\ signal[i + 1 - j] < signal[i + 1]
                           /\ signal[i + 1 + j] < signal[i + 1]}

\* The returned indices are exactly the set, in ascending order.
ListsExactly(peaks, set) ==
    /\ {peaks[j] : j \in 1..Len(peaks)} = set
    /\ \A j \in 1..(Len(peaks) - 1) : peaks[j] < peaks[j + 1]

\* C18 (as stated): the margin is m = clamp(w/4, 1, len/4), 1 when w/4 rounds
\* down to 0, and the peaks are exactly the indices of PeakSet for it.
C18_PeaksWithMarginAtLeastOne ==
    pkPc = "found" =>
        ListsExactly(pkPeaks,
                     PeakSet(pkSignal,
                             Min(Max(pkW \div 4, 1), Len(pkSignal) \div 4)))

\* C18 (amended): when w/4 rounds down to 0 no peak is reported at all;
\* otherwise the margin is m = min(w/4, len/4) and the peaks are exactly the
\* indices of PeakSet for it.
C18_PeaksOrNoneForZeroWindow ==
    pkPc = "found" =>
        IF pkW \div 4 = 0 THEN pkPeaks = <<>>
        ELSE ListsExactly(pkPeaks,
                          PeakSet(pkSignal,
                                  Min(pkW \div 4, Len(pkSignal) \div 4)))

\* C18 witness: margin 2, a peak reported, and an index within the margins
\* that is above the threshold and above its two immediate neighbours but is
\* not reported, because a value two places away is as large.
C18_Witness ==
    /\ pkPc = "found"
    /\ Min(pkW \div 4, Len(pkSignal) \div 4) = 2
    /\ Len(pkPeaks) >= 1
    /\ \E i \in 2..(Len(pkSignal) - 3) :
         /\ 10 * pkSignal[i + 1] > 3 * GlobalMax(pkSignal)
         /\ pkSignal[i] < pkSignal[i + 1]
         /\ pkSignal[i + 2] < pkSignal[i + 1]
         /\ \A j \in 1..Len(pkPeaks) : pkPeaks[j] # i

\* C18 witness for the zero window: w/4 = 0, a signal with a value that
\* margin 1 would make a peak, and nothing reported.
C18_WitnessZeroWindow ==
    /\ pkPc = "found"
    /\ pkW \div 4 = 0
    /\ PeakSet(pkSignal, Min(1, Len(pkSignal) \div 4)) # {}
    /\ pkPeaks = <<>>


(***************************************************************************)
(* Claims about the lazy loader and the existence check                    *)
(***************************************************************************)
\* No request has got as far as the model loader: each one is still before
\* model_loader.lock().await or has returned from the existence check.
NoRequestReachedLoader ==
    \A r \in Requests :
        \/ pc[r] \in {"idle", "check", "lock_loader"}
        \/ /\ pc[r] = "done"
           /\ result[r] = ErrResult("Audio file not found")

\* C19 (as stated): until the first separation request reaches the loader
\* neither a device has been selected nor weights loaded; the device is
\* selected (MPS, then CUDA, then CPU) by the request that loads the weights.
C19_FirstRequestSelectsDevice ==
    /\ NoRequestReachedLoader =>
         /\ device = "none"
         /\ loadCount = 0
         /\ loaderState \in {"NotCreated", "Unloaded"}
    /\ loaderState = "Loaded" =>
         device = IF hasMps THEN "Mps" ELSE IF hasCuda THEN "Cuda" ELSE "Cpu"

\* C19 (amended): the device is selected once, in the setup closure, with
\* priority MPS, then CUDA, then CPU, and no request changes it.  The loader
\* is created Unloaded by setup; it leaves Unloaded only when a request that
\* holds the loader lock finds no cached model in get_or_load, and it becomes
\* Loaded only when that request's load succeeds, which counts one load and
\* hands that request the handle.  Until a request reaches the loader no
\* weights have been loaded, and once Loaded the loader stays Loaded.
C19_DeviceAtSetupLoadOnRequest ==
    [][/\ appPhase = "starting" =>
            /\ device = "none"
            /\ loaderState = "NotCreated"
       /\ appPhase' = "running" =>
            device' = IF hasMps THEN "Mps"
                      ELSE IF hasCuda THEN "Cuda" ELSE "Cpu"
       /\ device' # device => appPhase = "starting" /\ appPhase' = "running"
       /\ NoRequestReachedLoader =>
            /\ loadCount = 0
            /\ loaderState \in {"NotCreated", "Unloaded"}
       /\ loaderState' # loaderState =>
            \/ /\ appPhase = "starting"
               /\ loaderState = "NotCreated"
               /\ loaderState' = "Unloaded"
            \/ \E r \in Requests :
                 /\ loaderLock = r
                 /\ \/ /\ pc[r] = "get_or_load"
                       /\ loaderState = "Unloaded"
                       /\ loaderState' = "Loading"
                       /\ loadCount' = loadCount
                    \/ /\ pc[r] = "loading"
                       /\ loaderState = "Loading"
                       /\ loaderState' = "Loaded"
                       /\ loadCount' = loadCount + 1
                       /\ handle'[r] = "loaded"
                    \/ /\ pc[r] = "loading"
                       /\ loaderState = "Loading"
                       /\ loaderState' = "Unloaded"
                       /\ loadCount' = loadCount
                       /\ result'[r] = ErrResult("Failed to load model")
       /\ (loaderState = "Loaded") = (loadCount = 1)
       /\ loadCount \in {0, 1}
      ]_vars

\* C19 witness: on a machine with CUDA but no MPS the device was fixed to
\* CUDA at setup, one request has loaded the weights and another one has
\* been served from the cache.
C19_Witness ==
    /\ ~hasMps
    /\ hasCuda
    /\ device = "Cuda"
    /\ loaderState = "Loaded"
    /\ loadCount = 1
    /\ \E r1, r2 \in Requests :
         /\ handle[r1] = "loaded"
         /\ handle[r2] = "cached"

\* C19 witness: the application is running with the device chosen while no
\* request has been invoked yet and nothing is loaded.
C19_WitnessDeviceBeforeRequest ==
    /\ appPhase = "running"
    /\ \A r \in Requests : pc[r] = "idle"
    /\ device = "Mps"
    /\ loaderState = "Unloaded"
    /\ loadCount = 0


\* Request r was invoked for a project whose main.mp3 is missing.
MissingAudio(r) == pc[r] # "idle" /\ ~HasMainMp3(proj[r])

\* C20: a separation request whose project has no main.mp3 fails before it
\* touches the model.  Its existence check can run whoever holds the loader
\* lock; when it finds no main.mp3 the step returns "Audio file not found"
\* and changes neither lock, nor the loader state, the load and inference
\* counts, the project record, the files on disk or any other request.  A
\* request at its check or returned with that error is not waiting for or
\* holding a lock and has no model handle.
C20_MissingAudioFailsBeforeModel ==
    [][\A r \in Requests :
           /\ (\/ pc[r] = "check"
               \/ /\ pc[r] = "done"
                  /\ result[r] = ErrResult("Audio file not found")) =>
                /\ loaderLock # r
                /\ dbLock # r
                /\ handle[r] = "none"
           /\ pc[r] = "check" => ENABLED CheckAudio(r)
           /\ (MissingAudio(r) /\ pc[r] = "check" /\ pc'[r] # "check") =>
                /\ pc'[r] = "done"
                /\ result'[r] = ErrResult("Audio file not found")
                /\ \A q \in Requests \ {r} :
                     pc'[q] = pc[q] /\ result'[q] = result[q]
                /\ UNCHANGED <<loaderLock, dbLock, loaderState, device,
                               handle, loadCount, loadFailures, inferCount,
                               stemPaths, written, produced>>
      ]_vars

\* C20 witness: a request for the project without main.mp3 has returned its
\* error while another request holds the loader lock with its inference in
\* flight, and nothing was loaded or stored on its behalf.
C20_Witness ==
    \E r, q \in Requests :
        /\ MissingAudio(r)
        /\ pc[r] = "done"
        /\ result[r] = ErrResult("Audio file not found")
        /\ loaderLock = q
        /\ pc[q] = "apply"
        /\ inferCount = 1
        /\ proj[r] \in DOMAIN stemPaths
        /\ stemPaths[proj[r]] = <<>>

\* C20 witness: the failing request is the only one so far; the loader is
\* still Unloaded and no load was attempted.
C20_WitnessLoaderUntouched ==
    \E r \in Requests :
        /\ MissingAudio(r)
        /\ pc[r] = "done"
        /\ \A q \in Requests \ {r} : pc[q] = "idle"
        /\ loaderState = "Unloaded"
        /\ loaderLock = 0
        /\ loadCount = 0
        /\ loadFailures = 0


(***************************************************************************)
(* Claims about the two locks of a separation request                      *)
(***************************************************************************)
\* Request r is past model_loader.lock().await and has not returned.
PastLoaderLock(r) ==
    pc[r] \in {"get_or_load", "loading", "split", "apply", "encode",
               "lock_db", "add_stems"}

\* Any step of request r after its invocation.
RequestStep(r) ==
    \/ CheckAudio(r)
    \/ LockLoader(r)
    \/ GetOrLoadCached(r)
    \/ GetOrLoadBegin(r)
    \/ LoadOk(r)
    \/ LoadFail(r)
    \/ Prepare(r)
    \/ Apply(r)
    \/ Encode(r)
    \/ LockDb(r)
    \/ AddStems(r)

\* C21: a separation request holds the model-loader lock from before the
\* load until it returns, also while it waits for and holds the database
\* lock; the database lock is taken only by the holder of the loader lock
\* and the loader lock never by a holder of the database lock; both are
\* given up only by returning.  Hence some unfinished request can always
\* take a step (no deadlock between requests) unless a caller of
\* delete_project_by_id holds the database lock for the length of its call,
\* a request that waits for the database lock never waits for another
\* request, and no inference starts while another request is still waiting
\* for or doing its database write.
C21_LoaderLockHeldAcrossDbWrite ==
    [][/\ \A r \in Requests :
            /\ PastLoaderLock(r) => loaderLock = r
            /\ dbLock = r => loaderLock = r /\ pc[r] = "add_stems"
            /\ pc[r] = "lock_db" => dbLock \notin Requests
            /\ (loaderLock # r /\ loaderLock' = r) =>
                 /\ pc[r] = "lock_loader"
                 /\ dbLock # r
                 /\ dbLock' # r
            /\ (dbLock # r /\ dbLock' = r) =>
                 /\ pc[r] = "lock_db"
                 /\ loaderLock = r
                 /\ loaderLock' = r
            /\ (loaderLock = r /\ loaderLock' # r) =>
                 /\ pc'[r] = "done"
                 /\ loaderLock' = 0
                 /\ dbLock' # r
            /\ (dbLock = r /\ dbLock' # r) =>
                 /\ pc'[r] = "done"
                 /\ dbLock' = 0
            /\ (pc[r] = "split" /\ inferCount' = inferCount + 1) =>
                 \A q \in Requests \ {r} :
                     pc[q] \in {"idle", "check", "lock_loader", "done"}
       /\ ((\E r \in Requests : pc[r] \notin {"idle", "done"})
             /\ dbLock # Deleter) =>
            ENABLED (\E r \in Requests : RequestStep(r))
       /\ dbLock = Deleter => ENABLED (\E p \in Projects : DeleteProject(p))
      ]_vars

\* C21 witness: one request holds both locks for its database write while
\* another one, already invoked for a project with audio, waits for the
\* loader lock.
C21_Witness ==
    \E r, q \in Requests :
        /\ pc[r] = "add_stems"
        /\ loaderLock = r
        /\ dbLock = r
        /\ pc[q] = "lock_loader"
        /\ HasMainMp3(proj[q])

\* C21 witness: the second request's inference runs after the first one's
\* database write has stored its stems.
C21_WitnessNextInference ==
    \E r, q \in Requests :
        /\ pc[r] = "done"
        /\ result[r].status = "ok"
        /\ proj[r] \in DOMAIN stemPaths
        /\ stemPaths[proj[r]] # <<>>
        /\ pc[q] = "apply"
        /\ loaderLock = q
        /\ inferCount = 2


(***************************************************************************)
(* Claims about the distance between peaks                                 *)
(***************************************************************************)
\* analysis.rs 155: the margin find_peaks uses for the window it is given.
SafeWindow == Min(Max(pkW \div 4, 1), Len(pkSignal) \div 4)

\* C22: the list returned by find_peaks is strictly increasing and two
\* consecutive peaks are at least safe_window + 1 apart, with safe_window =
\* min(max(window, 1), len/4); so with two or more peaks the estimator keeps
\* every gap as a positive interval, and neither its "no intervals" nor its
\* "average interval <= 0" fallback is taken.
C22_PeaksMoreThanMarginApart ==
    pkPc = "found" =>
        /\ \A j \in 1..(Len(pkPeaks) - 1) :
             /\ pkPeaks[j] < pkPeaks[j + 1]
             /\ pkPeaks[j + 1] - pkPeaks[j] >= SafeWindow + 1
        /\ Len(pkPeaks) >= 2 =>
             LET intervals == Intervals(pkPeaks, 1)
             IN  /\ Len(intervals) = Len(pkPeaks) - 1
                 /\ \A j \in 1..Len(intervals) :
                      intervals[j] = pkPeaks[j + 1] - pkPeaks[j]
                 /\ intervals # <<>>
                 /\ SumRange(intervals, 1, Len(intervals)) > 0

\* C22 witness: margin 2 and two reported peaks exactly 3 = margin + 1
\* apart.
C22_Witness ==
    /\ pkPc = "found"
    /\ SafeWindow = 2
    /\ Len(pkPeaks) >= 2
    /\ \E j \in 1..(Len(pkPeaks) - 1) : pkPeaks[j + 1] - pkPeaks[j] = 3

\* C22 witness for a signal shorter than 4 values: the margin is 0 and
\* adjacent indices are both reported.
C22_WitnessShortSignal ==
    /\ pkPc = "found"
    /\ pkW \div 4 >= 1
    /\ SafeWindow = 0
    /\ Len(pkPeaks) >= 2
    /\ pkPeaks[2] - pkPeaks[1] = 1


(***************************************************************************)
(* The estimator at a realistic sample rate: demucs/analysis.rs 43, 57-139  *)
(***************************************************************************)
\* Longest signal, in blocks.
MaxBlocks == 8

\* Samples per block: 100 ms at 420 Hz, 50 ms at 840 Hz.
BlockLen == 42

\* Sample rates above 410 Hz; window_size is 42 and 84.
TempoRates == {420, 840}

\* A block of silence and a block of constant level.
TempoBlocks == {[i \in 1..BlockLen |-> 0], [i \in 1..BlockLen |-> 10]}

InitTempo ==
    /\ SplitIdle
    /\ AnalysisIdle
    /\ ProjectIdle
    /\ FilterIdle
    /\ SeparateIdle
    /\ PeaksIdle
    /\ NoiseIdle
    /\ tpPc = "filling"
    /\ tpRate \in TempoRates
    /\ tpSamples = <<>>
    /\ tpBpm = <<0, 1>>

\* The decoded mono signal grows by one block.
AppendBlock ==
    /\ tpPc = "filling"
    /\ Len(tpSamples) < MaxBlocks * BlockLen
    /\ \E b \in TempoBlocks : tpSamples' = tpSamples \o b
    /\ UNCHANGED <<tpPc, tpRate, tpBpm>>
    /\ UNCHANGED nonTempoVars

\* analysis.rs 43: estimate_bpm_from_envelope(&samples, track.sample_rate)
EstimateTempo ==
    /\ tpPc = "filling"
    /\ tpBpm' = estimate_bpm_from_envelope(tpSamples, tpRate)
    /\ tpPc' = "estimated"
    /\ UNCHANGED <<tpRate, tpSamples>>
    /\ UNCHANGED nonTempoVars

NextTempo ==
    \/ AppendBlock
    \/ EstimateTempo

SpecTempo == InitTempo /\ [][NextTempo]_vars

(***************************************************************************)
(* Claims about the tempo at realistic sample rates                        *)
(***************************************************************************)
\* w = 0.1 * sample_rate, in whole samples.
TempoW == tpRate \div 10

\* The peaks the estimator finds in the smoothed envelope of the signal.
TempoPeaks ==
    find_peaks(Smoothed(Envelope(tpSamples), TempoW), TempoW \div 4)

\* C23: for a signal with sample_rate above 410 Hz and at least 4w samples,
\* w = 0.1 * sample_rate, consecutive peaks are more than w/4 apart, so with
\* two or more peaks the unclamped tempo 60 * sample_rate / (avg_gap * w) is
\* below 240 * sample_rate / w^2 and below 60, and the estimator returns
\* exactly 60 (two or more peaks) or exactly 120 (fewer): no other value.
C23_TempoIs60Or120 ==
    (tpPc = "estimated" /\ tpRate > 410 /\ Len(tpSamples) >= 4 * TempoW) =>
        LET peaks == TempoPeaks
            n == Len(peaks) - 1
            total == peaks[Len(peaks)] - peaks[1]
        IN  /\ \A j \in 1..n : 4 * (peaks[j + 1] - peaks[j]) > TempoW
            /\ IF Len(peaks) >= 2
               THEN /\ n * TempoW < 4 * total
                    /\ 60 * tpRate * n < 60 * total * TempoW
                    /\ tpBpm = <<60, 1>>
               ELSE tpBpm = <<120, 1>>

\* C23 witness: at 840 Hz a signal of at least 4w samples with two peaks in
\* its smoothed envelope got the tempo 60.
C23_Witness ==
    /\ tpPc = "estimated"
    /\ tpRate = 840
    /\ Len(tpSamples) >= 4 * TempoW
    /\ Len(TempoPeaks) >= 2
    /\ tpBpm = <<60, 1>>

\* C23 witness: at 420 Hz a signal that is not silent but has fewer than two
\* peaks got the fallback 120.
C23_WitnessFallback ==
    /\ tpPc = "estimated"
    /\ tpRate = 420
    /\ Len(tpSamples) >= 4 * TempoW
    /\ \E i \in 1..Len(tpSamples) : tpSamples[i] # 0
    /\ Len(TempoPeaks) = 1
    /\ tpBpm = <<120, 1>>

====
